---------------------------- MODULE Spec2Model ----------------------------
(***************************************************************************)
(* Model of the Firefox native-messaging host                              *)
(* src/firefox-extension/native/openpath-native-host.py.                   *)
(*                                                                         *)
(* Text is modelled as a sequence of Unicode code points, a byte stream as *)
(* a sequence of numbers 0..255.  A Python value is a tagged record:       *)
(*   [t |-> "none"], [t |-> "bool", v |-> b], [t |-> "int", v |-> n],      *)
(*   [t |-> "str", v |-> <<code points>>], [t |-> "list", v |-> <<...>>],  *)
(*   [t |-> "dict", v |-> <<[k |-> key, v |-> value], ...>>]               *)
(* A dict keeps its items in insertion order, as Python's dict does.       *)
(*                                                                         *)
(* Modelled input alphabet: code points up to U+00FF and U+2192; JSON      *)
(* numbers are integers (no fraction, exponent, NaN or Infinity).          *)
(***************************************************************************)
EXTENDS Integers, Sequences, FiniteSets, TLC

(***************************************************************************)
(* String literals of the source, as code points.                          *)
(***************************************************************************)
S_action == <<97, 99, 116, 105, 111, 110>>  \* 'action'
S_domains == <<100, 111, 109, 97, 105, 110, 115>>  \* 'domains'
S_check == <<99, 104, 101, 99, 107>>  \* 'check'
S_list == <<108, 105, 115, 116>>  \* 'list'
S_status == <<115, 116, 97, 116, 117, 115>>  \* 'status'
S_ping == <<112, 105, 110, 103>>  \* 'ping'
S_pong == <<112, 111, 110, 103>>  \* 'pong'
S_get_hostname == <<103, 101, 116, 45, 104, 111, 115, 116, 110, 97, 109, 101>>  \* 'get-hostname'
S_update_whitelist == <<117, 112, 100, 97, 116, 101, 45, 119, 104, 105, 116, 101, 108, 105, 115, 116>>  \* 'update-whitelist'
S_success == <<115, 117, 99, 99, 101, 115, 115>>  \* 'success'
S_error == <<101, 114, 114, 111, 114>>  \* 'error'
S_results == <<114, 101, 115, 117, 108, 116, 115>>  \* 'results'
S_message == <<109, 101, 115, 115, 97, 103, 101>>  \* 'message'
S_hostname == <<104, 111, 115, 116, 110, 97, 109, 101>>  \* 'hostname'
S_output == <<111, 117, 116, 112, 117, 116>>  \* 'output'
S_domain == <<100, 111, 109, 97, 105, 110>>  \* 'domain'
S_in_whitelist == <<105, 110, 95, 119, 104, 105, 116, 101, 108, 105, 115, 116>>  \* 'in_whitelist'
S_resolves == <<114, 101, 115, 111, 108, 118, 101, 115>>  \* 'resolves'
S_resolved_ip == <<114, 101, 115, 111, 108, 118, 101, 100, 95, 105, 112>>  \* 'resolved_ip'
S_active == <<97, 99, 116, 105, 118, 101>>  \* 'active'
S_activo == <<97, 99, 116, 105, 118, 111>>  \* 'activo'
S_YES == <<89, 69, 83>>  \* 'YES'
S_SI == <<83, 205>>  \* 'SÍ'
S_ARROW == <<8594>>  \* '→'
S_InvalidMessageFormat == <<73, 110, 118, 97, 108, 105, 100, 32, 109, 101, 115, 115, 97, 103, 101, 32, 102, 111, 114, 109, 97, 116>>  \* 'Invalid message format'
S_NoDomainsProvided == <<78, 111, 32, 100, 111, 109, 97, 105, 110, 115, 32, 112, 114, 111, 118, 105, 100, 101, 100>>  \* 'No domains provided'
S_UnknownAction == <<85, 110, 107, 110, 111, 119, 110, 32, 97, 99, 116, 105, 111, 110, 58, 32>>  \* 'Unknown action: '
S_UpdateScriptNotFound == <<85, 112, 100, 97, 116, 101, 32, 115, 99, 114, 105, 112, 116, 32, 110, 111, 116, 32, 102, 111, 117, 110, 100>>  \* 'Update script not found'
S_UpdateTimedOut == <<85, 112, 100, 97, 116, 101, 32, 116, 105, 109, 101, 100, 32, 111, 117, 116>>  \* 'Update timed out'
S_null == <<110, 117, 108, 108>>  \* 'null'
S_true == <<116, 114, 117, 101>>  \* 'true'
S_false == <<102, 97, 108, 115, 101>>  \* 'false'

(***************************************************************************)
(* Python values.                                                          *)
(***************************************************************************)
PyNone == [t |-> "none", v |-> 0]
PyBool(b) == [t |-> "bool", v |-> b]
PyInt(n) == [t |-> "int", v |-> n]
PyStr(s) == [t |-> "str", v |-> s]
PyList(l) == [t |-> "list", v |-> l]
PyDict(items) == [t |-> "dict", v |-> items]

\* isinstance(x, dict) / isinstance(x, str)
is_dict(x) == x.t = "dict"
is_str(x) == x.t = "str"

\* `x is not None` in the place of bool(x)
truthy_unless_none(x) == x.t # "none"

\* bool(x): the truth value Python gives x in `not x`
truthy(x) ==
  CASE x.t = "none" -> FALSE
    [] x.t = "bool" -> x.v
    [] x.t = "int" -> x.v # 0
    [] OTHER -> Len(x.v) > 0

\* d.get(key, default) on the items of a dict
dict_get(items, key, default) ==
  IF \E i \in 1..Len(items) : items[i].k = key
  THEN items[CHOOSE i \in 1..Len(items) : items[i].k = key].v
  ELSE default

\* d[key] = value: a key already present keeps its place and takes the value
dict_set(items, key, value) ==
  IF \E i \in 1..Len(items) : items[i].k = key
  THEN [i \in 1..Len(items) |->
          IF items[i].k = key THEN [k |-> key, v |-> value] ELSE items[i]]
  ELSE Append(items, [k |-> key, v |-> value])

(***************************************************************************)
(* str methods, on code points up to U+00FF (and U+2192, which is neither  *)
(* alphanumeric, whitespace nor cased).                                    *)
(***************************************************************************)
\* c.isalnum()
isalnum(c) ==
  \/ c \in 48..57 \/ c \in 65..90 \/ c \in 97..122
  \/ c \in {170, 178, 179, 181, 185, 186, 188, 189, 190}
  \/ c \in 192..214 \/ c \in 216..246 \/ c \in 248..255

\* c.isspace(), also the class \s of re
isspace(c) == c \in 9..13 \/ c \in 28..32 \/ c \in {133, 160}

\* c.lower()
lower_char(c) ==
  IF c \in 65..90 \/ c \in 192..214 \/ c \in 216..222 THEN c + 32 ELSE c

\* s.lower()
lower(s) == [i \in 1..Len(s) |-> lower_char(s[i])]

\* s.strip()
strip(s) ==
  IF \A i \in 1..Len(s) : isspace(s[i]) THEN <<>>
  ELSE LET a == CHOOSE i \in 1..Len(s) :
                  ~isspace(s[i]) /\ \A j \in 1..(i-1) : isspace(s[j])
           b == CHOOSE i \in 1..Len(s) :
                  ~isspace(s[i]) /\ \A j \in (i+1)..Len(s) : isspace(s[j])
       IN SubSeq(s, a, b)

\* `sub in s`
contains(s, sub) ==
  \E i \in 1..(Len(s) - Len(sub) + 1) : SubSeq(s, i, i + Len(sub) - 1) = sub

(***************************************************************************)
(* bytes.decode('utf-8'), strict.  [ok |-> FALSE] is UnicodeDecodeError.   *)
(***************************************************************************)
utf8_cont(x) == x \in 128..191

\* the number of bytes of the character whose first byte is c (0: no such)
utf8_width(c) ==
  CASE c < 128 -> 1
    [] c \in 194..223 -> 2
    [] c \in 224..239 -> 3
    [] c \in 240..244 -> 4
    [] OTHER -> 0

\* a well-formed character starts at b[i]
utf8_char_ok(b, i) ==
  LET c == b[i]
      w == utf8_width(c)
  IN /\ w > 0
     /\ i + w - 1 <= Len(b)
     /\ \A k \in (i + 1)..(i + w - 1) : utf8_cont(b[k])
     /\ (c = 224 => b[i+1] >= 160) /\ (c = 237 => b[i+1] <= 159)
     /\ (c = 240 => b[i+1] >= 144) /\ (c = 244 => b[i+1] <= 143)
     /\ (i + w <= Len(b) => ~utf8_cont(b[i + w]))

\* the code point of the character that starts at b[i]
utf8_char(b, i) ==
  LET c == b[i] IN
    CASE c < 128 -> c
      [] c \in 194..223 -> (c - 192) * 64 + (b[i+1] - 128)
      [] c \in 224..239 -> (c - 224) * 4096 + (b[i+1] - 128) * 64 + (b[i+2] - 128)
      [] OTHER -> (c - 240) * 262144 + (b[i+1] - 128) * 4096
                  + (b[i+2] - 128) * 64 + (b[i+3] - 128)

\* The bytes that are not continuation bytes start the characters: the text is
\* well formed when the first byte is one of them and each starts a
\* well-formed character that ends where the next one starts.
utf8_decode(b) ==
  LET starts == SelectSeq([i \in 1..Len(b) |-> i], LAMBDA i : ~utf8_cont(b[i]))
      ok == /\ (Len(b) > 0 => ~utf8_cont(b[1]))
            /\ \A k \in 1..Len(starts) : utf8_char_ok(b, starts[k])
      chars == [k \in 1..Len(starts) |-> utf8_char(b, starts[k])]
  IN IF ok THEN [ok |-> TRUE, s |-> SubSeq(chars, 1, Len(chars))]
     ELSE [ok |-> FALSE, s |-> <<>>]

(***************************************************************************)
(* json.loads on decoded text.  A parse step returns                       *)
(* [ok, v, i]: whether it matched, the value, the index after it;          *)
(* ok = FALSE is json.JSONDecodeError.                                     *)
(***************************************************************************)
JFail == [ok |-> FALSE, v |-> PyNone, i |-> 0]
JOk(val, next) == [ok |-> TRUE, v |-> val, i |-> next]

\* WHITESPACE = ' \t\n\r'
json_ws(c) == c \in {32, 9, 10, 13}

\* the index of the first character at or after i that is not whitespace
skip_ws(s, i) ==
  CHOOSE j \in i..(Len(s) + 1) :
    /\ \A k \in i..(j - 1) : json_ws(s[k])
    /\ (j = Len(s) + 1 \/ ~json_ws(s[j]))

is_digit(c) == c \in 48..57

hexval(c) ==
  CASE c \in 48..57 -> c - 48
    [] c \in 97..102 -> c - 87
    [] c \in 65..70 -> c - 55
    [] OTHER -> -1

\* the value of the decimal digits s[a..b]
RECURSIVE dec_value(_, _, _)
dec_value(s, a, b) ==
  IF b < a THEN 0 ELSE dec_value(s, a, b - 1) * 10 + (s[b] - 48)

\* py_scanstring (strict): i is the index after the opening quote
RECURSIVE scanstring(_, _, _)
scanstring(s, i, acc) ==
  IF i > Len(s) THEN JFail
  ELSE LET c == s[i] IN
    CASE c = 34 -> JOk(PyStr(acc), i + 1)
      [] c = 92 ->
           IF i + 1 > Len(s) THEN JFail
           ELSE LET e == s[i+1] IN
             CASE e = 117 ->
                    IF i + 5 <= Len(s) /\ \A k \in (i+2)..(i+5) : hexval(s[k]) >= 0
                    THEN scanstring(s, i + 6,
                           Append(acc, hexval(s[i+2]) * 4096 + hexval(s[i+3]) * 256
                                       + hexval(s[i+4]) * 16 + hexval(s[i+5])))
                    ELSE JFail
               [] e \in {34, 92, 47} -> scanstring(s, i + 2, Append(acc, e))
               [] e = 98 -> scanstring(s, i + 2, Append(acc, 8))
               [] e = 102 -> scanstring(s, i + 2, Append(acc, 12))
               [] e = 110 -> scanstring(s, i + 2, Append(acc, 10))
               [] e = 114 -> scanstring(s, i + 2, Append(acc, 13))
               [] e = 116 -> scanstring(s, i + 2, Append(acc, 9))
               [] OTHER -> JFail
      [] c < 32 -> JFail
      [] OTHER -> scanstring(s, i + 1, Append(acc, c))

\* NUMBER_RE at i: -?(0|[1-9][0-9]*)
scan_number(s, i) ==
  LET neg == s[i] = 45
      a == IF neg THEN i + 1 ELSE i
  IN IF a > Len(s) \/ ~is_digit(s[a]) THEN JFail
     ELSE LET b == IF s[a] = 48 THEN a
                   ELSE CHOOSE j \in a..Len(s) :
                          /\ \A k \in a..j : is_digit(s[k])
                          /\ (j = Len(s) \/ ~is_digit(s[j+1]))
              n == dec_value(s, a, b)
          IN JOk(PyInt(IF neg THEN 0 - n ELSE n), b + 1)

has_at(s, i, lit) == i + Len(lit) - 1 <= Len(s) /\ SubSeq(s, i, i + Len(lit) - 1) = lit

RECURSIVE scan_once(_, _), array_run(_, _, _), array_loop(_, _, _, _), parse_object(_, _, _)
\* scanner.scan_once: the value starting at i
scan_once(s, i) ==
  IF i > Len(s) THEN JFail
  ELSE LET c == s[i] IN
    CASE c = 34 -> scanstring(s, i + 1, <<>>)
      [] c = 123 ->
           LET j == skip_ws(s, i + 1) IN
             IF j <= Len(s) /\ s[j] = 125 THEN JOk(PyDict(<<>>), j + 1)
             ELSE parse_object(s, j, <<>>)
      [] c = 91 ->
           LET j == skip_ws(s, i + 1) IN
             IF j <= Len(s) /\ s[j] = 93 THEN JOk(PyList(<<>>), j + 1)
             ELSE array_loop(s, j, 0, <<>>)
      [] c = 110 /\ has_at(s, i, S_null) -> JOk(PyNone, i + 4)
      [] c = 116 /\ has_at(s, i, S_true) -> JOk(PyBool(TRUE), i + 4)
      [] c = 102 /\ has_at(s, i, S_false) -> JOk(PyBool(FALSE), i + 5)
      [] c = 45 \/ is_digit(c) -> scan_number(s, i)
      [] OTHER -> JFail

\* One pass of JSONArray's loop, with i at an element: the element, then ']'
\* (done) or ',' (i moves to the next element).
array_step(s, i) ==
  LET r == scan_once(s, i) IN
    IF ~r.ok THEN [ok |-> FALSE, vals |-> <<>>, i |-> 0, done |-> TRUE]
    ELSE LET j == skip_ws(s, r.i) IN
      IF j <= Len(s) /\ s[j] = 93
      THEN [ok |-> TRUE, vals |-> <<r.v>>, i |-> j + 1, done |-> TRUE]
      ELSE IF j <= Len(s) /\ s[j] = 44
      THEN [ok |-> TRUE, vals |-> <<r.v>>, i |-> skip_ws(s, j + 1), done |-> FALSE]
      ELSE [ok |-> FALSE, vals |-> <<>>, i |-> 0, done |-> TRUE]

\* up to 2^k passes of the loop from i, stopping at the pass that ends it
array_run(s, i, k) ==
  IF k = 0 THEN array_step(s, i)
  ELSE LET a == array_run(s, i, k - 1) IN
    IF a.done THEN a
    ELSE LET b == array_run(s, a.i, k - 1) IN
      [ok |-> b.ok, vals |-> a.vals \o b.vals, i |-> b.i, done |-> b.done]

\* JSONArray's loop `while True`, run in stretches of 1, 2, 4, ... passes
array_loop(s, i, k, acc) ==
  LET r == array_run(s, i, k) IN
    IF ~r.ok THEN JFail
    ELSE IF r.done THEN JOk(PyList(acc \o r.vals), r.i)
    ELSE array_loop(s, r.i, k + 1, acc \o r.vals)

\* JSONObject: i is at the next key's opening quote, acc the items so far
parse_object(s, i, acc) ==
  IF i > Len(s) \/ s[i] # 34 THEN JFail
  ELSE LET key == scanstring(s, i + 1, <<>>) IN
    IF ~key.ok THEN JFail
    ELSE LET c == skip_ws(s, key.i) IN
      IF c > Len(s) \/ s[c] # 58 THEN JFail
      ELSE LET r == scan_once(s, skip_ws(s, c + 1)) IN
        IF ~r.ok THEN JFail
        ELSE LET j == skip_ws(s, r.i)
                 items == dict_set(acc, key.v.v, r.v)
             IN IF j > Len(s) \/ Len(items) = 0 THEN JFail
                ELSE IF s[j] = 125 THEN JOk(PyDict(items), j + 1)
                ELSE IF s[j] = 44 THEN parse_object(s, skip_ws(s, j + 1), items)
                ELSE JFail

\* json.loads(text): one value, whitespace around it, nothing else
json_loads(s) ==
  LET r == scan_once(s, skip_ws(s, 1)) IN
    IF r.ok /\ skip_ws(s, r.i) = Len(s) + 1 THEN r ELSE JFail

(***************************************************************************)
(* json.dumps(value) with the defaults: ensure_ascii, separators ', ' and  *)
(* ': '.  The text is ASCII, so .encode('utf-8') gives the same numbers.   *)
(***************************************************************************)
hexdigit(n) == IF n < 10 THEN 48 + n ELSE 87 + n

RECURSIVE dec_digits(_)
dec_digits(n) ==
  IF n < 10 THEN <<48 + n>> ELSE Append(dec_digits(n \div 10), 48 + (n % 10))

\* str(n) of an int
int_str(n) == IF n < 0 THEN <<45>> \o dec_digits(0 - n) ELSE dec_digits(n)

\* ESCAPE_ASCII on one character
json_escape(c) ==
  CASE c = 34 -> <<92, 34>>
    [] c = 92 -> <<92, 92>>
    [] c = 10 -> <<92, 110>>
    [] c = 13 -> <<92, 114>>
    [] c = 9 -> <<92, 116>>
    [] c = 8 -> <<92, 98>>
    [] c = 12 -> <<92, 102>>
    [] c \in 32..126 -> <<c>>
    [] OTHER -> <<92, 117, hexdigit(c \div 4096), hexdigit((c \div 256) % 16),
                  hexdigit((c \div 16) % 16), hexdigit(c % 16)>>

RECURSIVE json_escape_all(_, _)
json_escape_all(s, i) ==
  IF i > Len(s) THEN <<>> ELSE json_escape(s[i]) \o json_escape_all(s, i + 1)

json_quote(s) == <<34>> \o json_escape_all(s, 1) \o <<34>>

RECURSIVE json_dumps(_), dumps_list(_, _, _), dumps_items(_, _)
json_dumps(x) ==
  CASE x.t = "none" -> S_null
    [] x.t = "bool" -> IF x.v THEN S_true ELSE S_false
    [] x.t = "int" -> int_str(x.v)
    [] x.t = "str" -> json_quote(x.v)
    [] x.t = "list" -> <<91>> \o dumps_list(x.v, 1, Len(x.v)) \o <<93>>
    [] x.t = "dict" -> <<123>> \o dumps_items(x.v, 1) \o <<125>>

\* the elements l[a..b], separated by ', '
dumps_list(l, a, b) ==
  IF a > b THEN <<>>
  ELSE IF a = b THEN json_dumps(l[a])
  ELSE LET m == (a + b) \div 2 IN
    dumps_list(l, a, m) \o <<44, 32>> \o dumps_list(l, m + 1, b)

dumps_items(items, i) ==
  IF i > Len(items) THEN <<>>
  ELSE (IF i > 1 THEN <<44, 32>> ELSE <<>>) \o json_quote(items[i].k) \o <<58, 32>>
       \o json_dumps(items[i].v) \o dumps_items(items, i + 1)

(***************************************************************************)
(* struct '@I': four bytes, native order; the model takes a little-endian  *)
(* host.                                                                   *)
(***************************************************************************)
struct_pack_I(n) ==
  <<n % 256, (n \div 256) % 256, (n \div 65536) % 256, (n \div 16777216) % 256>>

struct_unpack_I(b) == b[1] + 256 * b[2] + 65536 * b[3] + 16777216 * b[4]

(***************************************************************************)
(* str(x), as the f-string of line 287 formats the action.                 *)
(***************************************************************************)
\* c.isprintable()
isprintable(c) == ~(c < 32 \/ c \in 127..160 \/ c = 173)

\* repr of one character of a str inside the quote q
repr_char(c, q) ==
  CASE c = 92 -> <<92, 92>>
    [] c = q -> <<92, q>>
    [] c = 10 -> <<92, 110>>
    [] c = 13 -> <<92, 114>>
    [] c = 9 -> <<92, 116>>
    [] ~isprintable(c) -> <<92, 120, hexdigit(c \div 16), hexdigit(c % 16)>>
    [] OTHER -> <<c>>

RECURSIVE repr_chars(_, _, _)
repr_chars(s, i, q) ==
  IF i > Len(s) THEN <<>> ELSE repr_char(s[i], q) \o repr_chars(s, i + 1, q)

\* repr(s) of a str: single quotes, unless it holds one and no double quote
str_repr(s) ==
  LET q == IF (\E i \in 1..Len(s) : s[i] = 39) /\ ~(\E i \in 1..Len(s) : s[i] = 34)
           THEN 34 ELSE 39
  IN <<q>> \o repr_chars(s, 1, q) \o <<q>>

RECURSIVE py_repr(_), repr_list(_, _), repr_items(_, _)
py_repr(x) ==
  CASE x.t = "none" -> <<78, 111, 110, 101>>  \* 'None'
    [] x.t = "bool" -> IF x.v THEN <<84, 114, 117, 101>> ELSE <<70, 97, 108, 115, 101>>  \* 'True', 'False'
    [] x.t = "int" -> int_str(x.v)
    [] x.t = "str" -> str_repr(x.v)
    [] x.t = "list" -> <<91>> \o repr_list(x.v, 1) \o <<93>>
    [] x.t = "dict" -> <<123>> \o repr_items(x.v, 1) \o <<125>>

repr_list(l, i) ==
  IF i > Len(l) THEN <<>>
  ELSE (IF i > 1 THEN <<44, 32>> ELSE <<>>) \o py_repr(l[i]) \o repr_list(l, i + 1)

repr_items(items, i) ==
  IF i > Len(items) THEN <<>>
  ELSE (IF i > 1 THEN <<44, 32>> ELSE <<>>) \o str_repr(items[i].k) \o <<58, 32>>
       \o py_repr(items[i].v) \o repr_items(items, i + 1)

py_str(x) == IF x.t = "str" THEN x.v ELSE py_repr(x)

(***************************************************************************)
(* The outcome of subprocess.run(..., capture_output=True, text=True,      *)
(* timeout=...):                                                           *)
(*   [kind |-> "exit", returncode, stdout, stderr]  the process ended      *)
(*   [kind |-> "timeout"]                subprocess.TimeoutExpired         *)
(*   [kind |-> "error", text]            any other exception, str(e) = text*)
(***************************************************************************)
Exited(rc, out, err) == [kind |-> "exit", returncode |-> rc, stdout |-> out, stderr |-> err]
TimedOut == [kind |-> "timeout"]
LaunchFailed(text) == [kind |-> "error", text |-> text]

(***************************************************************************)
(* Constants of the program.                                               *)
(***************************************************************************)
MAX_DOMAINS == 50

\* the limit of read_message, 1024 * 1024
MAX_MESSAGE_LENGTH == 1024 * 1024
MAX_LOG_SIZE_MB == 5

(***************************************************************************)
(* check_domain(domain), given the outcome of `whitelist check <domain>`.  *)
(***************************************************************************)
\* re.search(r'→\s*(\S+)', output): group(1), or None when nothing matches.
\* The leftmost arrow decides: what follows it is whitespace and then either
\* a run of non-whitespace (the match) or the end (no match anywhere).
ip_match(output) ==
  IF ~contains(output, S_ARROW) THEN PyNone
  ELSE LET a == CHOOSE i \in 1..Len(output) :
                  output[i] = S_ARROW[1] /\ \A j \in 1..(i-1) : output[j] # S_ARROW[1]
           i0 == CHOOSE i \in (a+1)..(Len(output)+1) :
                   /\ \A j \in (a+1)..(i-1) : isspace(output[j])
                   /\ (i = Len(output) + 1 \/ ~isspace(output[i]))
       IN IF i0 > Len(output) THEN PyNone
          ELSE LET i1 == CHOOSE i \in i0..Len(output) :
                           /\ \A j \in i0..i : ~isspace(output[j])
                           /\ (i = Len(output) \/ isspace(output[i+1]))
               IN PyStr(SubSeq(output, i0, i1))

DomainCheckResult(domain, in_whitelist, resolves, resolved_ip) ==
  PyDict(<<[k |-> S_domain, v |-> PyStr(domain)],
           [k |-> S_in_whitelist, v |-> PyBool(in_whitelist)],
           [k |-> S_resolves, v |-> PyBool(resolves)],
           [k |-> S_resolved_ip, v |-> resolved_ip]>>)

check_domain(domain, outcome) ==
  IF outcome.kind = "exit"
  THEN LET output == outcome.stdout IN
         DomainCheckResult(domain,
           contains(output, S_SI) \/ contains(output, S_YES),
           contains(output, S_ARROW),
           ip_match(output))
  ELSE DomainCheckResult(domain, FALSE, FALSE, PyNone)

(***************************************************************************)
(* check_domains(domains): the slice, and the test each entry passes       *)
(* before check_domain is called on it.                                    *)
(***************************************************************************)
\* lines 146-152: [ok |-> FALSE] is `continue`, else v is the argument of
\* check_domain
sanitize(domain) ==
  IF ~truthy(domain) \/ ~is_str(domain) THEN [ok |-> FALSE, v |-> <<>>]
  ELSE LET d == lower(strip(domain.v)) IN
    IF \A i \in 1..Len(d) : isalnum(d[i]) \/ d[i] \in {46, 45}
    THEN [ok |-> TRUE, v |-> SubSeq(d, 1, Len(d))]
    ELSE [ok |-> FALSE, v |-> <<>>]

\* slice_domains with the tests applied before the slice: the first
\* MAX_DOMAINS entries that pass them
slice_after_sanitize(domains) ==
  CASE domains.t = "list" ->
         LET kept == SelectSeq(domains.v, LAMBDA d : sanitize(d).ok) IN
           [ok |-> TRUE,
            v |-> SubSeq(kept, 1, IF Len(kept) < MAX_DOMAINS THEN Len(kept) ELSE MAX_DOMAINS)]
    [] domains.t = "str" ->
         LET all == [i \in 1..Len(domains.v) |-> PyStr(<<domains.v[i]>>)]
             kept == SelectSeq(all, LAMBDA d : sanitize(d).ok)
         IN [ok |-> TRUE,
             v |-> SubSeq(kept, 1, IF Len(kept) < MAX_DOMAINS THEN Len(kept) ELSE MAX_DOMAINS)]
    [] OTHER -> [ok |-> FALSE, v |-> <<>>]

\* slice_domains with the limit off by one: domains[:MAX_DOMAINS + 1]
slice_one_more(domains) ==
  CASE domains.t = "list" ->
         [ok |-> TRUE,
          v |-> SubSeq(domains.v, 1, IF Len(domains.v) < MAX_DOMAINS + 1
                                     THEN Len(domains.v) ELSE MAX_DOMAINS + 1)]
    [] domains.t = "str" ->
         [ok |-> TRUE,
          v |-> [i \in 1..(IF Len(domains.v) < MAX_DOMAINS + 1
                           THEN Len(domains.v) ELSE MAX_DOMAINS + 1) |->
                   PyStr(<<domains.v[i]>>)]]
    [] OTHER -> [ok |-> FALSE, v |-> <<>>]

\* domains[:MAX_DOMAINS], as the sequence the for loop iterates over.  A list
\* gives its first entries, a str its first characters (each a str of one
\* character); any other value is not subscriptable: TypeError.
slice_domains(domains) ==
  CASE domains.t = "list" ->
         [ok |-> TRUE,
          v |-> SubSeq(domains.v, 1, IF Len(domains.v) < MAX_DOMAINS
                                     THEN Len(domains.v) ELSE MAX_DOMAINS)]
    [] domains.t = "str" ->
         [ok |-> TRUE,
          v |-> [i \in 1..(IF Len(domains.v) < MAX_DOMAINS
                           THEN Len(domains.v) ELSE MAX_DOMAINS) |->
                   PyStr(<<domains.v[i]>>)]]
    [] OTHER -> [ok |-> FALSE, v |-> <<>>]

\* the index of the first entry at or after i that check_domain is called on
\* (Len + 1: none is left)
next_checked(doms, i) ==
  LET passing == {k \in i..Len(doms) : sanitize(doms[k]).ok} IN
    IF passing = {} THEN Len(doms) + 1
    ELSE CHOOSE j \in passing : \A k \in passing : j <= k

(***************************************************************************)
(* get_whitelist_domains() and get_system_status(), given the outcome of   *)
(* the subprocess.                                                         *)
(***************************************************************************)
\* s.split('\n')
RECURSIVE split_lines(_)
split_lines(s) ==
  IF \A i \in 1..Len(s) : s[i] # 10 THEN <<s>>
  ELSE LET n == CHOOSE i \in 1..Len(s) : s[i] = 10 /\ \A j \in 1..(i-1) : s[j] # 10
       IN <<SubSeq(s, 1, n - 1)>> \o split_lines(SubSeq(s, n + 1, Len(s)))

\* get_whitelist_domains returning None when subprocess.run raises
get_whitelist_domains_none_on_failure(outcome) ==
  IF outcome.kind = "exit"
  THEN LET lines == split_lines(outcome.stdout)
           kept == SelectSeq(lines, LAMBDA d : Len(strip(d)) > 0)
       IN PyList([i \in 1..Len(kept) |-> PyStr(strip(kept[i]))])
  ELSE PyNone

get_whitelist_domains(outcome) ==
  IF outcome.kind = "exit"
  THEN LET lines == split_lines(outcome.stdout)
           kept == SelectSeq(lines, LAMBDA d : Len(strip(d)) > 0)
       IN PyList([i \in 1..Len(kept) |-> PyStr(strip(kept[i]))])
  ELSE PyList(<<>>)

get_system_status(outcome) ==
  IF outcome.kind = "exit"
  THEN PyDict(<<[k |-> S_output, v |-> PyStr(outcome.stdout)],
                [k |-> S_active,
                 v |-> PyBool(\/ contains(lower(outcome.stdout), S_activo)
                              \/ contains(lower(outcome.stdout), S_active))]>>)
  ELSE PyDict(<<[k |-> S_output, v |-> PyStr(<<>>)],
                [k |-> S_active, v |-> PyBool(FALSE)]>>)

(***************************************************************************)
(* handle_message(message).  env holds what the environment answers:       *)
(*   tool          the outcome of `whitelist domains` / `whitelist status` *)
(*   hostname      socket.gethostname()                                    *)
(*   script_exists os.path.exists(update_script)                           *)
(*   update        the outcome of `openpath-update.sh --update`            *)
(* The result is [kind |-> "return", response] or, for a check request     *)
(* with domains, [kind |-> "check_domains", domains]: control enters       *)
(* check_domains, which runs one subprocess per checked entry.             *)
(***************************************************************************)
Returns(response) == [kind |-> "return", response |-> response, domains |-> PyNone]

Failure(error) ==
  PyDict(<<[k |-> S_success, v |-> PyBool(FALSE)], [k |-> S_error, v |-> PyStr(error)]>>)

\* the response of a check with no result left taken for the failure of a
\* check without domains
CheckResponse_empty_is_failure(results) ==
  IF results = <<>> THEN Failure(S_NoDomainsProvided)
  ELSE PyDict(<<[k |-> S_success, v |-> PyBool(TRUE)],
                [k |-> S_action, v |-> PyStr(S_check)],
                [k |-> S_results, v |-> PyList(results)]>>)

\* lines 209-213
CheckResponse(results) ==
  PyDict(<<[k |-> S_success, v |-> PyBool(TRUE)],
           [k |-> S_action, v |-> PyStr(S_check)],
           [k |-> S_results, v |-> PyList(results)]>>)

\* the three-item responses of list, status, ping and get-hostname
Success(action, key, value) ==
  PyDict(<<[k |-> S_success, v |-> PyBool(TRUE)],
           [k |-> S_action, v |-> PyStr(action)],
           [k |-> key, v |-> value]>>)

UpdateFailure(error) ==
  PyDict(<<[k |-> S_success, v |-> PyBool(FALSE)],
           [k |-> S_action, v |-> PyStr(S_update_whitelist)],
           [k |-> S_error, v |-> PyStr(error)]>>)

\* update_whitelist taking any exit of the script for a success
update_whitelist_rc_ignored(env) ==
  IF ~env.script_exists THEN UpdateFailure(S_UpdateScriptNotFound)
  ELSE CASE env.update.kind = "exit" ->
              PyDict(<<[k |-> S_success, v |-> PyBool(TRUE)],
                       [k |-> S_action, v |-> PyStr(S_update_whitelist)],
                       [k |-> S_output, v |-> PyStr(env.update.stdout)],
                       [k |-> S_error, v |-> PyNone]>>)
         [] env.update.kind = "timeout" -> UpdateFailure(S_UpdateTimedOut)
         [] OTHER -> UpdateFailure(env.update.text)

\* update_whitelist with the test of the error item the wrong way round: the
\* script's stderr on a zero exit, None on a nonzero exit
update_whitelist_error_flipped(env) ==
  IF ~env.script_exists THEN UpdateFailure(S_UpdateScriptNotFound)
  ELSE CASE env.update.kind = "exit" ->
              PyDict(<<[k |-> S_success, v |-> PyBool(env.update.returncode = 0)],
                       [k |-> S_action, v |-> PyStr(S_update_whitelist)],
                       [k |-> S_output, v |-> PyStr(env.update.stdout)],
                       [k |-> S_error,
                        v |-> IF env.update.returncode = 0
                              THEN PyStr(env.update.stderr) ELSE PyNone]>>)
         [] env.update.kind = "timeout" -> UpdateFailure(S_UpdateTimedOut)
         [] OTHER -> UpdateFailure(env.update.text)

\* lines 250-282
update_whitelist(env) ==
  IF ~env.script_exists THEN UpdateFailure(S_UpdateScriptNotFound)
  ELSE CASE env.update.kind = "exit" ->
              PyDict(<<[k |-> S_success, v |-> PyBool(env.update.returncode = 0)],
                       [k |-> S_action, v |-> PyStr(S_update_whitelist)],
                       [k |-> S_output, v |-> PyStr(env.update.stdout)],
                       [k |-> S_error,
                        v |-> IF env.update.returncode # 0
                              THEN PyStr(env.update.stderr) ELSE PyNone]>>)
         [] env.update.kind = "timeout" -> UpdateFailure(S_UpdateTimedOut)
         [] OTHER -> UpdateFailure(env.update.text)

\* action == "..." for a value of any type: equal only to that very string
str_eq(x, s) == is_str(x) /\ x.v = s

handle_message(message, env) ==
  IF ~is_dict(message) THEN Returns(Failure(S_InvalidMessageFormat))
  ELSE LET action == dict_get(message.v, S_action, PyStr(<<>>)) IN
    CASE str_eq(action, S_check) ->
           LET domains == dict_get(message.v, S_domains, PyList(<<>>)) IN
             IF ~truthy(domains) THEN Returns(Failure(S_NoDomainsProvided))
             ELSE [kind |-> "check_domains", response |-> PyNone, domains |-> domains]
      [] str_eq(action, S_list) ->
           Returns(Success(S_list, S_domains, get_whitelist_domains(env.tool)))
      [] str_eq(action, S_status) ->
           Returns(Success(S_status, S_status, get_system_status(env.tool)))
      [] str_eq(action, S_ping) -> Returns(Success(S_ping, S_message, PyStr(S_pong)))
      [] str_eq(action, S_get_hostname) ->
           Returns(Success(S_get_hostname, S_hostname, PyStr(env.hostname)))
      [] str_eq(action, S_update_whitelist) -> Returns(update_whitelist(env))
      [] OTHER -> Returns(Failure(S_UnknownAction \o py_str(action)))

(***************************************************************************)
(* read_message() on the bytes buf that stdin holds, once the reads no     *)
(* longer block.  The result is                                            *)
(*   [kind |-> "return", value, why, rest]   why: "eof" (no byte left),    *)
(*        "toolong" (length over the limit) or "decoded"                   *)
(*   [kind |-> "raise", exc, rest]           an exception leaves it        *)
(* rest is what stays unread.                                              *)
(***************************************************************************)
\* sys.stdin.buffer.read(n): the first n bytes, fewer at the end of the stream
read_bytes(buf, n) == SubSeq(buf, 1, IF Len(buf) < n THEN Len(buf) ELSE n)

after_bytes(buf, n) == SubSeq(buf, (IF Len(buf) < n THEN Len(buf) ELSE n) + 1, Len(buf))

\* read_message with the decoding guarded: a payload that does not decode
\* returns None, as the end of the stream does
read_message_guarded(buf) ==
  LET raw_length == read_bytes(buf, 4)
      rest4 == after_bytes(buf, 4)
  IN IF Len(raw_length) = 0
     THEN [kind |-> "return", value |-> PyNone, why |-> "eof", exc |-> "none", rest |-> rest4]
     ELSE IF Len(raw_length) < 4
     THEN [kind |-> "raise", value |-> PyNone, why |-> "none", exc |-> "struct.error",
           rest |-> rest4]
     ELSE LET message_length == struct_unpack_I(raw_length) IN
       IF message_length > MAX_MESSAGE_LENGTH
       THEN [kind |-> "return", value |-> PyNone, why |-> "toolong", exc |-> "none",
             rest |-> rest4]
       ELSE LET text == utf8_decode(read_bytes(rest4, message_length))
                rest == after_bytes(rest4, message_length)
                parsed == IF text.ok THEN json_loads(text.s) ELSE [ok |-> FALSE]
            IN IF ~text.ok \/ ~parsed.ok
               THEN [kind |-> "return", value |-> PyNone, why |-> "eof", exc |-> "none",
                     rest |-> rest]
               ELSE [kind |-> "return", value |-> parsed.v, why |-> "decoded",
                     exc |-> "none", rest |-> rest]

\* read_message with the limit test off by one: >= in place of >
read_message_limit_inclusive(buf) ==
  LET raw_length == read_bytes(buf, 4)
      rest4 == after_bytes(buf, 4)
  IN IF Len(raw_length) = 0
     THEN [kind |-> "return", value |-> PyNone, why |-> "eof", exc |-> "none", rest |-> rest4]
     ELSE IF Len(raw_length) < 4
     THEN [kind |-> "raise", value |-> PyNone, why |-> "none", exc |-> "struct.error",
           rest |-> rest4]
     ELSE LET message_length == struct_unpack_I(raw_length) IN
       IF message_length >= MAX_MESSAGE_LENGTH
       THEN [kind |-> "return", value |-> PyNone, why |-> "toolong", exc |-> "none",
             rest |-> rest4]
       ELSE LET text == utf8_decode(read_bytes(rest4, message_length))
                rest == after_bytes(rest4, message_length)
            IN IF ~text.ok
               THEN [kind |-> "raise", value |-> PyNone, why |-> "none",
                     exc |-> "UnicodeDecodeError", rest |-> rest]
               ELSE LET parsed == json_loads(text.s) IN
                 IF ~parsed.ok
                 THEN [kind |-> "raise", value |-> PyNone, why |-> "none",
                       exc |-> "JSONDecodeError", rest |-> rest]
                 ELSE [kind |-> "return", value |-> parsed.v, why |-> "decoded",
                       exc |-> "none", rest |-> rest]

read_message(buf) ==
  LET raw_length == read_bytes(buf, 4)
      rest4 == after_bytes(buf, 4)
  IN IF Len(raw_length) = 0
     THEN [kind |-> "return", value |-> PyNone, why |-> "eof", exc |-> "none", rest |-> rest4]
     ELSE IF Len(raw_length) < 4
     THEN [kind |-> "raise", value |-> PyNone, why |-> "none", exc |-> "struct.error",
           rest |-> rest4]
     ELSE LET message_length == struct_unpack_I(raw_length) IN
       IF message_length > MAX_MESSAGE_LENGTH
       THEN [kind |-> "return", value |-> PyNone, why |-> "toolong", exc |-> "none",
             rest |-> rest4]
       ELSE LET text == utf8_decode(read_bytes(rest4, message_length))
                rest == after_bytes(rest4, message_length)
            IN IF ~text.ok
               THEN [kind |-> "raise", value |-> PyNone, why |-> "none",
                     exc |-> "UnicodeDecodeError", rest |-> rest]
               ELSE LET parsed == json_loads(text.s) IN
                 IF ~parsed.ok
                 THEN [kind |-> "raise", value |-> PyNone, why |-> "none",
                       exc |-> "JSONDecodeError", rest |-> rest]
                 ELSE [kind |-> "return", value |-> parsed.v, why |-> "decoded",
                       exc |-> "none", rest |-> rest]

\* The reads of read_message return without waiting for the peer: the stream
\* is closed, or it holds the length and as many payload bytes as it asks for.
read_ready(buf, closed) ==
  \/ closed
  \/ /\ Len(buf) >= 4
     /\ \/ struct_unpack_I(read_bytes(buf, 4)) > MAX_MESSAGE_LENGTH
        \/ Len(buf) >= 4 + struct_unpack_I(read_bytes(buf, 4))

(***************************************************************************)
(* send_message(message): the bytes written to stdout.                     *)
(***************************************************************************)
\* send_message with the length of the payload and of its prefix in the
\* prefix
send_message_counts_prefix(message) ==
  LET encoded_message == json_dumps(message)
      encoded_length == struct_pack_I(Len(encoded_message) + 4)
  IN encoded_length \o encoded_message

send_message(message) ==
  LET encoded_message == json_dumps(message)
      encoded_length == struct_pack_I(Len(encoded_message))
  IN encoded_length \o encoded_message

(***************************************************************************)
(* The environment: what the external tools answer and what the peer       *)
(* writes.                                                                 *)
(***************************************************************************)
T_empty == <<>>
T_ok == <<111, 107>>  \* 'ok'
T_boom == <<98, 111, 111, 109>>  \* 'boom'
H_pc1 == <<112, 99, 49>>  \* 'pc1'
H_lab == <<108, 97, 98, 45, 50>>  \* 'lab-2'

Hostnames == {H_pc1, H_lab}

\* outcomes of `whitelist check <domain>`
CheckOutcomes ==
  {Exited(0, T_empty, T_empty),
   Exited(0, <<97, 46, 98, 58, 32, 83, 205, 32, 8594, 32, 49, 48, 46, 48, 46, 48, 46, 49, 10>>, T_empty),  \* 'a.b: SÍ → 10.0.0.1\n'
   Exited(1, <<89, 69, 83, 32, 8594, 32, 32, 10>>, T_boom),  \* 'YES →  \n'
   TimedOut,
   \* "[Errno 2] No such file or directory: '/usr/local/bin/whitelist'"
   LaunchFailed(<<91, 69, 114, 114, 110, 111, 32, 50, 93, 32, 78, 111, 32, 115, 117, 99, 104, 32, 102, 105, 108, 101, 32, 111, 114, 32, 100, 105, 114, 101, 99, 116, 111, 114, 121, 58, 32, 39, 47, 117, 115, 114, 47, 108, 111, 99, 97, 108, 47, 98, 105, 110, 47, 119, 104, 105, 116, 101, 108, 105, 115, 116, 39>>)}

\* outcomes of `whitelist domains` and `whitelist status`
ToolOutcomes ==
  {Exited(0, T_empty, T_empty),
   Exited(0, <<97, 46, 98, 10, 32, 99, 46, 100, 32, 10, 10>>, T_empty),  \* 'a.b\n c.d \n\n'
   Exited(0, <<69, 115, 116, 97, 100, 111, 58, 32, 65, 67, 84, 73, 86, 79>>, T_empty),  \* 'Estado: ACTIVO'
   Exited(1, <<105, 110, 97, 99, 116, 105, 118, 101>>, T_boom),  \* 'inactive'
   Exited(0, <<111, 102, 102>>, T_empty),  \* 'off'
   TimedOut,
   \* "[Errno 2] No such file or directory: '/usr/local/bin/whitelist'"
   LaunchFailed(<<91, 69, 114, 114, 110, 111, 32, 50, 93, 32, 78, 111, 32, 115, 117, 99, 104, 32, 102, 105, 108, 101, 32, 111, 114, 32, 100, 105, 114, 101, 99, 116, 111, 114, 121, 58, 32, 39, 47, 117, 115, 114, 47, 108, 111, 99, 97, 108, 47, 98, 105, 110, 47, 119, 104, 105, 116, 101, 108, 105, 115, 116, 39>>)}

\* outcomes of the update script
UpdateOutcomes ==
  {Exited(0, T_ok, T_empty), Exited(0, T_empty, T_boom), Exited(1, T_ok, T_boom),
   TimedOut,
   \* "[Errno 13] Permission denied: '/usr/local/bin/openpath-update.sh'"
   LaunchFailed(<<91, 69, 114, 114, 110, 111, 32, 49, 51, 93, 32, 80, 101, 114, 109, 105, 115, 115, 105, 111, 110, 32, 100, 101, 110, 105, 101, 100, 58, 32, 39, 47, 117, 115, 114, 47, 108, 111, 99, 97, 108, 47, 98, 105, 110, 47, 111, 112, 101, 110, 112, 97, 116, 104, 45, 117, 112, 100, 97, 116, 101, 46, 115, 104, 39>>)}

NoOutcome == Exited(0, T_empty, T_empty)

\* the answers of an environment that is not asked anything
QuietEnv ==
  [tool |-> NoOutcome, hostname |-> H_pc1, script_exists |-> FALSE, update |-> NoOutcome]

\* what the environment may answer to this message
Envs(message) ==
  LET action == IF is_dict(message) THEN dict_get(message.v, S_action, PyStr(<<>>))
                ELSE PyNone
      quiet == QuietEnv
  IN CASE str_eq(action, S_list) \/ str_eq(action, S_status) ->
            {[quiet EXCEPT !.tool = o] : o \in ToolOutcomes}
       [] str_eq(action, S_get_hostname) ->
            {[quiet EXCEPT !.hostname = h] : h \in Hostnames}
       [] str_eq(action, S_update_whitelist) ->
            {quiet} \cup {[quiet EXCEPT !.script_exists = TRUE, !.update = o] :
                            o \in UpdateOutcomes}
       [] OTHER -> {quiet}

\* The subprocess.run calls made for a message outside check_domains (lines
\* 162, 179 and 253), by the subcommand or script they run.
runs_of(message, env) ==
  IF ~is_dict(message) THEN <<>>
  ELSE LET action == dict_get(message.v, S_action, PyStr(<<>>)) IN
    CASE str_eq(action, S_list) -> <<"domains">>
      [] str_eq(action, S_status) -> <<"status">>
      [] str_eq(action, S_update_whitelist) /\ env.script_exists -> <<"update">>
      [] OTHER -> <<>>

(***************************************************************************)
(* The log file and its backup.  A file is                                 *)
(*   [exists, size, content]                                               *)
(* size is the size in bytes the file had when the process started (0 for  *)
(* a file created since): the only read of the size is the rotation check, *)
(* which runs before the first append.  content says whose lines the file  *)
(* starts with: "prior" (earlier runs wrote the active log), "older" (the  *)
(* backup of an earlier rotation), "fresh" (this run created the file).    *)
(* An append keeps what the file holds, so it leaves the record as it is.  *)
(***************************************************************************)
NoFile == [exists |-> FALSE, size |-> 0, content |-> "none"]

FreshFile == [exists |-> TRUE, size |-> 0, content |-> "fresh"]

\* what the file system does to log_debug: all goes well, open() raises
\* (permission, missing directory), or the write raises (disk full)
LogOutcomes == {"ok", "open", "write"}

\* log_debug without its try: a failure to open or to write is raised
log_debug_unguarded(file, io) ==
  IF io = "open" THEN [file |-> file, raised |-> TRUE]
  ELSE [file |-> IF file.exists THEN file ELSE FreshFile, raised |-> io # "ok"]

\* log_debug(message) on the log file; raised tells whether an exception
\* leaves log_debug
log_debug(file, io) ==
  IF io = "open" THEN [file |-> file, raised |-> FALSE]
  ELSE [file |-> IF file.exists THEN file ELSE FreshFile, raised |-> FALSE]

\* what the file system does to rotate_log_if_needed: all goes well, or
\* exists()/stat(), unlink() or rename() raises
RotateOutcomes == {"ok", "stat", "unlink", "rename"}

\* rotate_log_if_needed rotating from the threshold on (>= for >)
rotate_log_if_needed_from_threshold(file, old, io) ==
  IF io = "stat" THEN [log |-> file, backup |-> old, raised |-> FALSE]
  ELSE IF file.exists /\ file.size >= MAX_LOG_SIZE_MB * 1024 * 1024
  THEN IF old.exists /\ io = "unlink" THEN [log |-> file, backup |-> old, raised |-> FALSE]
       ELSE IF io = "rename" THEN [log |-> file, backup |-> NoFile, raised |-> FALSE]
       ELSE [log |-> NoFile, backup |-> file, raised |-> FALSE]
  ELSE [log |-> file, backup |-> old, raised |-> FALSE]

\* rotate_log_if_needed() on the log file and its backup
rotate_log_if_needed(file, old, io) ==
  IF io = "stat" THEN [log |-> file, backup |-> old, raised |-> FALSE]
  ELSE IF file.exists /\ file.size > MAX_LOG_SIZE_MB * 1024 * 1024
  THEN IF old.exists /\ io = "unlink" THEN [log |-> file, backup |-> old, raised |-> FALSE]
       ELSE IF io = "rename" THEN [log |-> file, backup |-> NoFile, raised |-> FALSE]
       ELSE [log |-> NoFile, backup |-> file, raised |-> FALSE]
  ELSE [log |-> file, backup |-> old, raised |-> FALSE]

\* payloads the peer sends, as bytes
P_ping == <<123, 34, 97, 99, 116, 105, 111, 110, 34, 58, 34, 112, 105, 110, 103, 34, 125>>  \* '{"action":"ping"}'
P_check_head == <<123, 34, 97, 99, 116, 105, 111, 110, 34, 58, 34, 99, 104, 101, 99, 107, 34, 44, 34, 100, 111, 109, 97, 105, 110, 115, 34, 58>>  \* '{"action":"check","domains":'
P_check_tail == <<125>>  \* '}'
N_zero == <<48>>  \* '0'
N_null == <<110, 117, 108, 108>>  \* 'null'
E_ab == <<34, 97, 46, 98, 34>>  \* '"a.b"'
E_dash == <<34, 45, 114, 102, 34>>  \* '"-rf"'
E_blank == <<34, 32, 34>>  \* '" "'
E_eacute == <<34, 195, 169, 34>>  \* '"é"'
E_semi == <<34, 97, 59, 98, 34>>  \* '"a;b"'

\* the frame a peer builds around a payload
Frame(payload) == struct_pack_I(Len(payload)) \o payload

\* the JSON text of a list of entries
RECURSIVE join_entries(_, _)
join_entries(entries, i) ==
  IF i > Len(entries) THEN <<>>
  ELSE (IF i > 1 THEN <<44>> ELSE <<>>) \o entries[i] \o join_entries(entries, i + 1)

ListText(entries) == <<91>> \o join_entries(entries, 1) \o <<93>>

CheckPayload(domains_text) == P_check_head \o domains_text \o P_check_tail

\* n copies of x
Rep(x, n) == [i \in 1..n |-> x]

Entries ==
  {E_ab, E_dash, E_blank, E_eacute, E_semi, N_zero, N_null,
   <<34, 32, 65, 46, 66, 92, 110, 34>>,  \* '" A.B\n"'
   <<34, 97, 32, 98, 34>>,  \* '"a b"'
   <<34, 34>>,  \* '""'
   <<34, 46, 46, 47, 101, 34>>,  \* '"../e"'
   <<91, 34, 120, 34, 93>>}  \* '["x"]'

PairEntries == {E_ab, E_blank, E_semi, N_zero}

ShortLists ==
  {<<e>> : e \in Entries} \cup {<<a, b>> : a \in PairEntries, b \in PairEntries}
  \cup {<<E_ab, <<34, 97, 32, 98, 34>>>>,  \* the second: '"a b"'
        <<E_dash, E_eacute>>,
        \* '" A.B\n"', '"../e"', then E_ab
        <<<<34, 32, 65, 46, 66, 92, 110, 34>>, <<34, 46, 46, 47, 101, 34>>, E_ab>>}

\* lists around MAX_DOMAINS entries: entries that are not checked, then a
\* tail that straddles the limit
LongLists ==
  {Rep(N_zero, MAX_DOMAINS - 2) \o tail :
     tail \in {<<E_ab, E_ab>>, <<E_semi, E_ab, E_ab>>, <<E_ab, E_semi, E_ab>>,
               <<E_ab, E_blank, E_ab, E_ab>>, <<N_zero, N_zero, E_ab>>,
               <<E_semi, E_ab, E_semi, E_ab>>}}
  \cup {Rep(E_ab, MAX_DOMAINS - 1) \o <<E_dash, E_eacute>>}

DomainsTexts ==
  {N_zero, N_null,
   <<53>>,  \* '5'
   <<116, 114, 117, 101>>,  \* 'true'
   <<102, 97, 108, 115, 101>>,  \* 'false'
   <<34, 97, 32, 59, 34>>,  \* '"a ;"'
   <<34, 34>>,  \* '""'
   <<123, 34, 107, 34, 58, 49, 125>>,  \* '{"k":1}'
   <<123, 125>>,  \* '{}'
   <<91, 93>>}  \* '[]'
  \cup {ListText(l) : l \in ShortLists \cup LongLists}

Payloads ==
  {P_ping, N_zero, N_null,
   <<123, 34, 97, 99, 116, 105, 111, 110, 34, 58, 34, 108, 105, 115, 116, 34, 125>>,  \* '{"action":"list"}'
   <<123, 34, 97, 99, 116, 105, 111, 110, 34, 58, 34, 115, 116, 97, 116, 117, 115, 34, 125>>,  \* '{"action":"status"}'
   <<123, 34, 97, 99, 116, 105, 111, 110, 34, 58, 34, 103, 101, 116, 45, 104, 111, 115, 116, 110, 97, 109, 101, 34, 125>>,  \* '{"action":"get-hostname"}'
   <<123, 34, 97, 99, 116, 105, 111, 110, 34, 58, 34, 117, 112, 100, 97, 116, 101, 45, 119, 104, 105, 116, 101, 108, 105, 115, 116, 34, 125>>,  \* '{"action":"update-whitelist"}'
   <<123, 34, 97, 99, 116, 105, 111, 110, 34, 58, 34, 102, 111, 111, 34, 125>>,  \* '{"action":"foo"}'
   <<123, 125>>,  \* '{}'
   <<123, 34, 97, 99, 116, 105, 111, 110, 34, 58, 53, 125>>,  \* '{"action":5}'
   <<123, 34, 97, 99, 116, 105, 111, 110, 34, 58, 91, 34, 99, 104, 101, 99, 107, 34, 93, 125>>,  \* '{"action":["check"]}'
   <<32, 123, 34, 100, 111, 109, 97, 105, 110, 115, 34, 58, 55, 44, 34, 97, 99, 116, 105, 111, 110, 34, 58, 34, 112, 105, 110, 103, 34, 125, 10>>,  \* ' {"domains":7,"action":"ping"}\n'
   <<123, 34, 97, 99, 116, 105, 111, 110, 34, 58, 34, 99, 104, 101, 99, 107, 34, 125>>,  \* '{"action":"check"}'
   <<91, 49, 93>>,  \* '[1]'
   <<34, 112, 105, 110, 103, 34>>,  \* '"ping"'
   <<53>>,  \* '5'
   <<116, 114, 117, 101>>,  \* 'true'
   <<102, 97, 108, 115, 101>>,  \* 'false'
   <<91, 93>>,  \* '[]'
   <<123, 34, 97, 99, 116, 105, 111, 110, 34, 58>>,  \* '{"action":'
   <<112, 105, 110, 103>>,  \* 'ping'
   <<123, 125, 32, 123, 125>>,  \* '{} {}'
   <<>>,  \* ''
   <<255>>, <<34, 195, 34>>}  \* bytes that are not UTF-8
  \cup {CheckPayload(d) : d \in DomainsTexts}

\* What the peer writes at a time: a whole frame, a frame whose payload is
\* cut short, a frame that declares more than the limit or exactly the
\* limit, or less than a length prefix.
Chunks ==
  {Frame(p) : p \in Payloads}
  \cup {struct_pack_I(Len(P_ping)) \o SubSeq(P_ping, 1, 5),
        struct_pack_I(2) \o <<53>>,
        struct_pack_I(MAX_MESSAGE_LENGTH + 1) \o P_ping,
        struct_pack_I(MAX_MESSAGE_LENGTH) \o P_ping,
        <<17>>, <<17, 0>>, <<17, 0, 0>>}

\* what the peer may write while the host is busy with a request
PipelinedChunks == {Frame(P_ping), <<17, 0>>}

\* the number of chunks the peer writes in a run
MaxFrames == 2

\* In a request, the first MaxVaried runs of `whitelist check` take any
\* outcome of CheckOutcomes; the runs after them end with exit status 0 and
\* no output.
MaxVaried == 2

(***************************************************************************)
(* State.                                                                  *)
(***************************************************************************)
VARIABLES
  pc,           \* where main is: "start", "read", "handle", "check", "send", "exit"
  uncaught,     \* the exception that ended the process, or "none"
  message,      \* main's message (PyNone between two requests)
  response,     \* main's response (PyNone until handle_message returns)
  domains,      \* check_domains: the slice the loop iterates over
  idx,          \* check_domains: the position of the loop in the slice
  results,      \* check_domains: results
  stdin,        \* the bytes written by the peer and not read yet
  stdin_closed, \* the peer has closed the stream
  stdout,       \* the bytes written to stdout and not read by the peer yet
  read_why,     \* how the last read_message returned
  calls,        \* the `whitelist check` runs of the request: domain, position, outcome
  env,          \* what the environment answered to the request
  ran,          \* the other subprocess runs of the request
  nwritten,     \* chunks the peer has written
  nread,        \* frames read_message has decoded
  nsent,        \* frames send_message has written
  log,          \* the log file
  backup,       \* the backup of the log file
  loop_buf,     \* codec loopback: the bytes written and not read back yet
  loop_sent,    \* codec loopback: the values written
  loop_read     \* codec loopback: the values read back

\* the variables of the codec loopback
codec_vars == <<loop_buf, loop_sent, loop_read>>

\* the files
fs_vars == <<log, backup>>

\* the process and its streams
host_vars == <<pc, uncaught, message, response, domains, idx, results, read_why, calls,
               env, ran, nread, nsent>>

proto_vars == <<host_vars, stdin, stdin_closed, stdout, nwritten>>

vars == <<proto_vars, fs_vars, codec_vars>>

\* the exit status of the process once pc = "exit"
ExitCode == IF uncaught = "none" THEN 0 ELSE 1

\* the process and its streams before main runs
InitHost ==
  /\ pc = "start" /\ uncaught = "none"
  /\ message = PyNone /\ response = PyNone
  /\ domains = <<>> /\ idx = 1 /\ results = <<>>
  /\ stdin = <<>> /\ stdin_closed = FALSE /\ stdout = <<>>
  /\ read_why = "none" /\ calls = <<>>
  /\ env = QuietEnv /\ ran = <<>>
  /\ nwritten = 0 /\ nread = 0 /\ nsent = 0

InitCodec == loop_buf = <<>> /\ loop_sent = <<>> /\ loop_read = <<>>

\* The host starts with a log that earlier runs wrote, below the rotation
\* threshold, and no backup.
Init ==
  /\ InitHost /\ InitCodec
  /\ log = [exists |-> TRUE, size |-> 1024, content |-> "prior"]
  /\ backup = NoFile

(***************************************************************************)
(* The peer.                                                               *)
(***************************************************************************)
\* The peer reads what stdout holds and writes a chunk of the set chunks.
PeerWrites(chunks) ==
  /\ ~stdin_closed /\ stdin = <<>> /\ nwritten < MaxFrames
  /\ \E c \in chunks :
       /\ pc = "read" \/ c \in PipelinedChunks
       /\ stdin' = c
  /\ nwritten' = nwritten + 1
  /\ stdout' = <<>>
  /\ UNCHANGED <<stdin_closed, host_vars, fs_vars, codec_vars>>

PeerWrite == PeerWrites(Chunks)

\* The peer closes the stream.  The host sees it only in read_message, so
\* the model lets it happen while the host is there.
PeerClose ==
  /\ ~stdin_closed /\ pc = "read"
  /\ stdin_closed' = TRUE
  /\ UNCHANGED <<stdin, nwritten, stdout, host_vars, fs_vars, codec_vars>>

(***************************************************************************)
(* Logging inside a step of main.                                          *)
(***************************************************************************)
\* an exception of rotate_log_if_needed or log_debug reaches the top of main
LogRaises ==
  /\ pc' = "exit" /\ uncaught' = "OSError"
  /\ UNCHANGED <<message, response, domains, idx, results, read_why, calls, env, ran,
                 nread, nsent, stdin, stdin_closed, stdout, nwritten, fs_vars>>

\* The step Proto of the process and its streams, with one call of log_debug
\* in it when does_log holds.
Logged(does_log, Proto) ==
  IF does_log
  THEN \E io \in LogOutcomes :
         LET l == log_debug(log, io) IN
           IF l.raised THEN LogRaises
           ELSE Proto /\ log' = l.file /\ UNCHANGED backup
  ELSE Proto /\ UNCHANGED fs_vars

\* lines 173 and 192: get_whitelist_domains and get_system_status log the
\* exception of subprocess.run
tool_logs(m, e) ==
  /\ runs_of(m, e) \in {<<"domains">>, <<"status">>}
  /\ e.tool.kind # "exit"

(***************************************************************************)
(* main: what each step does to the process and its streams.               *)
(***************************************************************************)
\* lines 291-292
StartProto ==
  /\ pc = "start"
  /\ pc' = "read"
  /\ UNCHANGED <<uncaught, message, response, domains, idx, results, read_why, calls, env,
                 ran, nread, nsent, stdin, stdin_closed, stdout, nwritten>>

\* lines 295-301: read_message, then leave the loop on None
ReadProto ==
  /\ pc = "read"
  /\ read_ready(stdin, stdin_closed)
  /\ LET r == read_message(stdin) IN
       /\ stdin' = r.rest
       /\ read_why' = r.why
       /\ nread' = IF r.kind = "return" /\ r.why = "decoded" THEN nread + 1 ELSE nread
       /\ IF r.kind = "raise"
          THEN /\ pc' = "exit" /\ uncaught' = r.exc /\ UNCHANGED message
          ELSE /\ message' = r.value
               /\ pc' = IF r.value.t = "none" THEN "exit" ELSE "handle"
               /\ UNCHANGED uncaught
  /\ UNCHANGED <<response, domains, idx, results, calls, env, ran, nsent, stdin_closed,
                 stdout, nwritten>>

\* line 303, up to the return of handle_message or the entry of the loop of
\* check_domains, in the environment e
HandleProto(e) ==
  /\ pc = "handle"
  /\ env' = e
  /\ LET h == handle_message(message, e) IN
       IF h.kind = "return"
       THEN /\ response' = h.response /\ pc' = "send"
            /\ ran' = runs_of(message, e)
            /\ UNCHANGED <<uncaught, domains, idx, results>>
       ELSE LET sl == slice_domains(h.domains) IN
         IF sl.ok
         THEN /\ domains' = sl.v /\ idx' = 1 /\ results' = <<>> /\ pc' = "check"
              /\ UNCHANGED <<uncaught, response, ran>>
         ELSE /\ pc' = "exit" /\ uncaught' = "TypeError"
              /\ UNCHANGED <<response, domains, idx, results, ran>>
  /\ UNCHANGED <<message, read_why, calls, nread, nsent, stdin, stdin_closed, stdout,
                 nwritten>>

\* the outcomes the next run of `whitelist check` may have
NextCheckOutcomes == IF Len(calls) < MaxVaried THEN CheckOutcomes ELSE {NoOutcome}

\* CheckProto with results.append inside the try of check_domain: a run that
\* times out or fails to launch leaves no result
CheckProtoDropsFailures(outcome) ==
  /\ pc = "check"
  /\ LET j == next_checked(domains, idx) IN
       /\ j <= Len(domains)
       /\ results' = IF outcome.kind = "exit"
                     THEN Append(results, check_domain(sanitize(domains[j]).v, outcome))
                     ELSE results
       /\ calls' = Append(calls, [domain |-> sanitize(domains[j]).v, pos |-> j,
                                  outcome |-> outcome])
       /\ idx' = j + 1
  /\ UNCHANGED <<pc, uncaught, message, response, domains, read_why, env, ran, nread, nsent,
                 stdin, stdin_closed, stdout, nwritten>>

\* lines 144-155: the loop skips to the next entry that passes the tests and
\* runs check_domain on it, with this outcome
CheckProto(outcome) ==
  /\ pc = "check"
  /\ LET j == next_checked(domains, idx) IN
       /\ j <= Len(domains)
       /\ results' = Append(results, check_domain(sanitize(domains[j]).v, outcome))
       /\ calls' = Append(calls, [domain |-> sanitize(domains[j]).v, pos |-> j,
                                  outcome |-> outcome])
       /\ idx' = j + 1
  /\ UNCHANGED <<pc, uncaught, message, response, domains, read_why, env, ran, nread, nsent,
                 stdin, stdin_closed, stdout, nwritten>>

\* lines 144-157 and 209-213: no entry is left to check; check_domains
\* returns and handle_message builds the response
CheckReturnProto ==
  /\ pc = "check"
  /\ next_checked(domains, idx) > Len(domains)
  /\ response' = CheckResponse(results)
  /\ domains' = <<>> /\ idx' = 1 /\ results' = <<>>
  /\ pc' = "send"
  /\ UNCHANGED <<uncaught, message, read_why, calls, env, ran, nread, nsent, stdin,
                 stdin_closed, stdout, nwritten>>

\* lines 305-306: send_message, and the loop goes round; the request is over
SendProto ==
  /\ pc = "send"
  /\ stdout' = stdout \o send_message(response)
  /\ nsent' = nsent + 1
  /\ pc' = "read"
  /\ message' = PyNone /\ response' = PyNone /\ calls' = <<>>
  /\ env' = QuietEnv /\ ran' = <<>>
  /\ UNCHANGED <<uncaught, domains, idx, results, read_why, nread, stdin, stdin_closed,
                 nwritten>>

(***************************************************************************)
(* main: the steps, with the files.                                        *)
(***************************************************************************)
\* lines 291-292: the rotation check and the first line of the log
Start ==
  /\ pc = "start"
  /\ \E rio \in RotateOutcomes, io \in LogOutcomes :
       LET r == rotate_log_if_needed(log, backup, rio)
           l == log_debug(r.log, io) IN
         IF r.raised \/ l.raised THEN LogRaises
         ELSE StartProto /\ log' = l.file /\ backup' = r.backup
  /\ UNCHANGED codec_vars

\* lines 295-301: main logs what read_message returned
ReadMessage ==
  /\ pc = "read" /\ read_ready(stdin, stdin_closed)
  /\ Logged(read_message(stdin).kind = "return", ReadProto)
  /\ UNCHANGED codec_vars

\* line 303
HandleMessage ==
  /\ pc = "handle"
  /\ \E e \in Envs(message) : Logged(tool_logs(message, e), HandleProto(e))
  /\ UNCHANGED codec_vars

\* CheckDomain with results.append inside the try of check_domain
CheckDomainDropsFailures ==
  /\ pc = "check" /\ next_checked(domains, idx) <= Len(domains)
  /\ \E outcome \in NextCheckOutcomes :
       Logged(outcome.kind # "exit", CheckProtoDropsFailures(outcome))
  /\ UNCHANGED codec_vars

\* lines 144-155; check_domain logs a timeout or an exception (lines 131, 133)
CheckDomain ==
  /\ pc = "check" /\ next_checked(domains, idx) <= Len(domains)
  /\ \E outcome \in NextCheckOutcomes :
       Logged(outcome.kind # "exit", CheckProto(outcome))
  /\ UNCHANGED codec_vars

\* lines 144-157 and 209-213
CheckDomainsReturn ==
  /\ CheckReturnProto
  /\ UNCHANGED <<fs_vars, codec_vars>>

\* lines 305-306: main logs the response and sends it
SendMessage ==
  /\ pc = "send"
  /\ Logged(TRUE, SendProto)
  /\ UNCHANGED codec_vars

Next ==
  \/ PeerWrite \/ PeerClose
  \/ Start \/ ReadMessage \/ HandleMessage \/ CheckDomain \/ CheckDomainsReturn
  \/ SendMessage

Spec == Init /\ [][Next]_vars

(***************************************************************************)
(* The host over every state of the log files at startup.                  *)
(***************************************************************************)
\* the active log at startup: absent, below the rotation threshold, at the
\* threshold, one byte over it
LogFiles ==
  {NoFile} \cup {[exists |-> TRUE, size |-> n, content |-> "prior"] :
                   n \in {1024, MAX_LOG_SIZE_MB * 1024 * 1024,
                          MAX_LOG_SIZE_MB * 1024 * 1024 + 1}}

\* the backup at startup: absent, or left by an earlier rotation
BackupFiles == {NoFile, [exists |-> TRUE, size |-> 6000000, content |-> "older"]}

LogInit ==
  /\ InitHost /\ InitCodec
  /\ log \in LogFiles /\ backup \in BackupFiles

\* requests that reach every call of log_debug, and a stream that ends
LogChunks ==
  {Frame(P_ping), Frame(N_null), <<17, 0>>,
   Frame(<<123, 34, 97, 99, 116, 105, 111, 110, 34, 58, 34, 108, 105, 115, 116, 34, 125>>),  \* '{"action":"list"}'
   Frame(<<123, 34, 97, 99, 116, 105, 111, 110, 34, 58, 34, 115, 116, 97, 116, 117, 115, 34, 125>>),  \* '{"action":"status"}'
   Frame(CheckPayload(ListText(<<E_ab>>)))}

LogPeerWrite == PeerWrites(LogChunks)

LogNext ==
  \/ LogPeerWrite \/ PeerClose
  \/ Start \/ ReadMessage \/ HandleMessage \/ CheckDomain \/ CheckDomainsReturn
  \/ SendMessage

LogSpec == LogInit /\ [][LogNext]_vars

(***************************************************************************)
(* The codec on a loopback buffer: send_message writes frames into the     *)
(* buffer, read_message reads them back.                                   *)
(***************************************************************************)
\* the number of frames written into the buffer
MaxLoop == 2

\* the values written: every type, strings with characters that JSON
\* escapes, nested lists and dicts, and the responses of the host
CodecValues ==
  {PyNone, PyBool(TRUE), PyBool(FALSE), PyInt(0), PyInt(-7), PyInt(1048576),
   PyStr(<<>>), PyStr(H_lab), PyStr(<<34, 92, 10, 9>>), PyStr(<<233, 32, 8594, 1>>),
   PyList(<<>>), PyList(<<PyInt(1), PyStr(T_ok), PyList(<<PyNone>>)>>),
   PyDict(<<>>),
   PyDict(<<[k |-> <<233>>, v |-> PyDict(<<[k |-> <<>>, v |-> PyList(<<>>)]>>)]>>),
   Failure(S_NoDomainsProvided),
   Success(S_ping, S_message, PyStr(S_pong)),
   CheckResponse(<<check_domain(<<97, 46, 98>>, TimedOut)>>)}

\* send_message(v) on the buffer
CodecWrite ==
  /\ Len(loop_sent) < MaxLoop
  /\ \E v \in CodecValues :
       /\ loop_buf' = loop_buf \o send_message(v)
       /\ loop_sent' = Append(loop_sent, v)
  /\ UNCHANGED <<loop_read, proto_vars, fs_vars>>

\* read_message() on the buffer, which holds a frame
CodecRead ==
  /\ Len(loop_read) < Len(loop_sent)
  /\ LET r == read_message(loop_buf) IN
       /\ loop_buf' = r.rest
       /\ loop_read' = Append(loop_read, [kind |-> r.kind, why |-> r.why, value |-> r.value])
  /\ UNCHANGED <<loop_sent, proto_vars, fs_vars>>

CodecNext == CodecWrite \/ CodecRead

CodecSpec == Init /\ [][CodecNext]_vars

(***************************************************************************)
(* The host under fair scheduling: the process keeps running, a read       *)
(* returns once the stream holds what it asks for or is closed, and every  *)
(* subprocess exits or is ended at its timeout, so that a step of main     *)
(* that can be taken is taken in the end.  Nothing is assumed of the peer. *)
(***************************************************************************)
HostNext ==
  \/ Start \/ ReadMessage \/ HandleMessage \/ CheckDomain \/ CheckDomainsReturn
  \/ SendMessage

\* main can take a step: it is not at the end, and not in a read that waits
\* for the peer
HostReady ==
  \/ pc \in {"start", "handle", "check", "send"}
  \/ pc = "read" /\ read_ready(stdin, stdin_closed)

\* A step of main, by what it does to pc and idx: every step of HostNext
\* moves pc or idx, and no step of the peer does.
HostStep ==
  /\ HostReady
  /\ pc' \in {"read", "handle", "check", "send", "exit"}
  /\ idx' \in 1..(MAX_DOMAINS + 1)

\* requests of each kind, one that is decoded to None, one whose domains are
\* a number, and a stream that ends inside a length prefix
FairChunks ==
  {Frame(P_ping), Frame(N_null), <<17, 0>>,
   Frame(CheckPayload(<<53>>)),  \* domains: 5
   Frame(CheckPayload(ListText(<<E_ab, E_semi>>)))}

FairPeerWrite == PeerWrites(FairChunks)

FairNext == FairPeerWrite \/ PeerClose \/ HostNext

FairSpec == Init /\ [][FairNext]_vars /\ WF_<<pc, idx>>(HostStep)


(***************************************************************************)
(* Properties of the host.  The request being resolved is main's message;  *)
(* the formulas read it while pc is "handle", "check" or "send".           *)
(***************************************************************************)
is_bool(x, b) == x.t = "bool" /\ x.v = b

\* message is a check request whose domains reach check_domains
CheckEntered ==
  /\ is_dict(message)
  /\ str_eq(dict_get(message.v, S_action, PyStr(<<>>)), S_check)
  /\ truthy(dict_get(message.v, S_domains, PyList(<<>>)))

\* the entries of the request's domains, as sent: the elements of a list, the
\* characters of a string
raw_entries ==
  LET d == dict_get(message.v, S_domains, PyList(<<>>)) IN
    IF d.t = "list" THEN d.v
    ELSE IF d.t = "str" THEN [i \in 1..Len(d.v) |-> PyStr(<<d.v[i]>>)]
    ELSE <<>>

first_n(seq, n) == SubSeq(seq, 1, IF Len(seq) < n THEN Len(seq) ELSE n)

\* the entries that pass the tests of lines 146-152
survivors(entries) == SelectSeq(entries, LAMBDA d : sanitize(d).ok)

\* the characters a-z, 0-9, '.' and '-'
AllowedChars == (97..122) \cup (48..57) \cup {46, 45}

\* C1: every frame read_message decodes is answered by exactly one response
\* frame before the next frame is read: between two requests, and when the
\* process has ended, as many responses were written as frames were decoded,
\* and while a request is being resolved exactly one response is owed.
C1_EachDecodedFrameAnswered ==
  /\ nsent <= nread
  /\ pc \in {"start", "read", "exit"} => nsent = nread
  /\ pc \in {"handle", "check", "send"} => nread = nsent + 1

\* C2: every domain passed to `whitelist check` is non-empty and made of
\* characters of [a-z0-9.-] only.
C2_ArgumentsAreCleanDomains ==
  \A i \in 1..Len(calls) :
    /\ Len(calls[i].domain) > 0
    /\ \A k \in 1..Len(calls[i].domain) : calls[i].domain[k] \in AllowedChars

\* C3: no domain passed to `whitelist check` begins with '-'.
C3_NoLeadingDash ==
  \A i \in 1..Len(calls) : Len(calls[i].domain) > 0 => calls[i].domain[1] # 45

\* C4: a request that decodes to a JSON object never ends the process,
\* whatever the types of its fields: the process ends only on a read that
\* gave no object.
C4_ObjectRequestsNeverEndTheProcess ==
  pc = "exit" => ~is_dict(message)

\* C5: a frame that decodes to a JSON value that is not an object is answered
\* with {success: false, error: "Invalid message format"}, runs no
\* subprocess, and does not end the loop.
C5_NonObjectAnswered ==
  /\ (pc = "send" /\ ~is_dict(message)) =>
       /\ response.t = "dict" /\ response = Failure(S_InvalidMessageFormat)
       /\ calls = <<>>
  /\ ~(pc = "exit" /\ read_why = "decoded" /\ ~is_dict(message))

\* C6: the response to a check request that ran check_domains has
\* success: true and one result for each entry that passed the tests, in
\* order, whatever the outcomes of the subprocesses; a run that timed out or
\* failed to launch gives in_whitelist false, resolves false and resolved_ip
\* null, and the entries after it are checked all the same.
C6_PartialFailureIsolation ==
  (pc = "send" /\ CheckEntered) =>
    LET kept == survivors(first_n(raw_entries, MAX_DOMAINS))
        res == dict_get(response.v, S_results, PyNone)
    IN /\ is_bool(dict_get(response.v, S_success, PyNone), TRUE)
       /\ res.t = "list"
       /\ Len(res.v) = Len(kept)
       /\ Len(calls) = Len(kept)
       /\ \A i \in 1..Len(kept) :
            /\ res.v[i].t = "dict"
            /\ str_eq(dict_get(res.v[i].v, S_domain, PyNone), sanitize(kept[i]).v)
            /\ calls[i].outcome.kind \in {"timeout", "error"} =>
                 /\ is_bool(dict_get(res.v[i].v, S_in_whitelist, PyNone), FALSE)
                 /\ is_bool(dict_get(res.v[i].v, S_resolves, PyNone), FALSE)
                 /\ dict_get(res.v[i].v, S_resolved_ip, PyInt(0)).t = "none"

\* a check whose first subprocess timed out or failed to launch, and whose
\* next entry was checked after it
C6_Witness ==
  /\ pc = "send" /\ CheckEntered
  /\ Len(calls) >= 2
  /\ calls[1].outcome.kind \in {"timeout", "error"}
  /\ calls[2].outcome.kind = "exit"
  /\ Len(dict_get(response.v, S_results, PyList(<<>>)).v) = Len(calls)

\* the domains of the results of the response, in order
result_domains ==
  LET res == dict_get(response.v, S_results, PyList(<<>>)).v IN
    [i \in 1..Len(res) |-> dict_get(res[i].v, S_domain, PyNone).v]

sanitized(entries) == [i \in 1..Len(entries) |-> sanitize(entries[i]).v]

\* C7, as stated: the list is sanitized and then truncated; the results are
\* for the first 50 entries that pass the tests, wherever they stand in the
\* input.
C7_SanitizeThenTruncate ==
  (pc = "send" /\ CheckEntered) =>
    result_domains = sanitized(first_n(survivors(raw_entries), MAX_DOMAINS))

\* C7, amended: the list is truncated to its first 50 entries and then
\* sanitized; the results are, in input order, for the entries among the
\* first 50 positions that pass the tests, and an entry at position 51 or
\* later gives no result.
C7_TruncateThenSanitize ==
  (pc = "send" /\ CheckEntered) =>
    result_domains = sanitized(survivors(first_n(raw_entries, MAX_DOMAINS)))

\* a request with more than 50 entries, one of the first 50 failing the tests
\* and one after position 50 passing them, answered with at least one result
C7_Witness ==
  /\ pc = "send" /\ CheckEntered
  /\ Len(raw_entries) > MAX_DOMAINS
  /\ \E i \in 1..MAX_DOMAINS : ~sanitize(raw_entries[i]).ok
  /\ \E i \in (MAX_DOMAINS + 1)..Len(raw_entries) : sanitize(raw_entries[i]).ok
  /\ Len(result_domains) >= 1

\* C8: for a check request the whitelist tool runs at most 50 times, each run
\* on an entry of the first 50 positions of the input, in input order; no
\* entry at position 51 or later is passed to it.
C8_BoundedWork ==
  /\ Len(calls) <= MAX_DOMAINS
  /\ \A i \in 1..Len(calls) :
       /\ calls[i].pos \in 1..MAX_DOMAINS
       /\ calls[i].pos <= Len(raw_entries)
       /\ calls[i].domain = sanitize(raw_entries[calls[i].pos]).v
       /\ i > 1 => calls[i - 1].pos < calls[i].pos

\* a request of more than 50 entries answered after 50 runs of the tool, an
\* entry that passes the tests standing at position 51
C8_Witness ==
  /\ pc = "send" /\ CheckEntered
  /\ Len(raw_entries) > MAX_DOMAINS
  /\ sanitize(raw_entries[MAX_DOMAINS + 1]).ok
  /\ Len(calls) = MAX_DOMAINS
  /\ calls[MAX_DOMAINS].pos = MAX_DOMAINS

\* the length prefix of buf is whole and within the limit
prefix_ok(buf) ==
  /\ Len(buf) >= 4
  /\ struct_unpack_I(read_bytes(buf, 4)) <= MAX_MESSAGE_LENGTH

\* the payload bytes read_message gets from buf
payload_read(buf) == read_bytes(after_bytes(buf, 4), struct_unpack_I(read_bytes(buf, 4)))

\* fewer payload bytes than the prefix declares
payload_short(buf) ==
  prefix_ok(buf) /\ Len(payload_read(buf)) < struct_unpack_I(read_bytes(buf, 4))

\* the payload bytes read do not decode as UTF-8 JSON
payload_undecodable(buf) ==
  /\ prefix_ok(buf)
  /\ LET text == utf8_decode(payload_read(buf)) IN
       IF text.ok THEN ~json_loads(text.s).ok ELSE TRUE

\* C9, as stated: a read of a payload that does not decode (a zero-length
\* payload and a payload shorter than declared among them) ends the loop with
\* no response and no later read, and the process ends with exit code 0.
C9_UndecodablePayloadExitsCleanly ==
  [][ /\ (pc = "read" /\ pc' # "read"
          /\ (payload_undecodable(stdin) \/ payload_short(stdin))) =>
         (pc' = "exit" /\ nsent' = nsent /\ stdout' = stdout /\ ExitCode' = 0)
      /\ pc = "exit" => (pc' = "exit" /\ nread' = nread /\ nsent' = nsent) ]_vars

\* C9, amended: a read whose payload bytes, as read, do not decode as UTF-8
\* JSON (a zero-length payload among them) ends the loop with no response
\* and no later read, and the process ends on the uncaught UnicodeDecodeError
\* or JSONDecodeError, with exit code 1.
C9_UndecodablePayloadEndsOnException ==
  [][ /\ (pc = "read" /\ pc' # "read" /\ payload_undecodable(stdin)) =>
         /\ pc' = "exit" /\ nsent' = nsent /\ nread' = nread /\ stdout' = stdout
         /\ uncaught' \in {"UnicodeDecodeError", "JSONDecodeError"}
         /\ ExitCode' = 1
      /\ pc = "exit" =>
         (pc' = "exit" /\ nread' = nread /\ nsent' = nsent /\ uncaught' = uncaught) ]_vars

\* the process has ended on a payload that did not decode, after it answered
\* a request, and a frame written later stays unread
C9_Witness ==
  /\ pc = "exit" /\ uncaught \in {"UnicodeDecodeError", "JSONDecodeError"}
  /\ nread = nsent
  /\ stdin = Frame(P_ping)

\* C10: a read that finds fewer than 4 bytes for the length prefix (0, 1, 2
\* or 3) at the end of the stream returns as the end of the stream does: the
\* loop ends normally, with no exception and no response.
C10_ShortPrefixIsEndOfStream ==
  [][ (pc = "read" /\ pc' # "read" /\ Len(stdin) < 4) =>
        (pc' = "exit" /\ read_why' = "eof" /\ uncaught' = "none" /\ nsent' = nsent) ]_vars

\* the length the prefix of buf declares
declared_length(buf) == struct_unpack_I(read_bytes(buf, 4))

\* C11: a frame that declares more than 1,048,576 bytes is taken for the end
\* of the stream: its payload is not read, nothing is dispatched, no response
\* is written, no subprocess runs, and the process ends normally without
\* reading a later frame; a frame that declares exactly 1,048,576 bytes is
\* read and dispatched as any other frame.
C11_OversizeFrameIsEndOfStream ==
  [][ /\ (pc = "read" /\ pc' # "read" /\ Len(stdin) >= 4
          /\ declared_length(stdin) > 1048576) =>
         /\ read_why' = "toolong"
         /\ pc' = "exit" /\ uncaught' = "none"
         /\ stdin' = after_bytes(stdin, 4)
         /\ nread' = nread /\ nsent' = nsent /\ stdout' = stdout /\ calls' = calls
      /\ (pc = "read" /\ pc' # "read" /\ Len(stdin) >= 4
          /\ declared_length(stdin) = 1048576 /\ ~payload_undecodable(stdin)) =>
         /\ read_why' = "decoded"
         /\ nread' = nread + 1
         /\ message' = json_loads(utf8_decode(payload_read(stdin)).s).v
         /\ pc' = IF message'.t = "none" THEN "exit" ELSE "handle"
      /\ pc = "exit" => (pc' = "exit" /\ nread' = nread /\ nsent' = nsent) ]_vars

\* the process has ended normally on a frame that declared more than the
\* limit, and the payload that came with it stays unread
C11_Witness ==
  /\ pc = "exit" /\ read_why = "toolong" /\ uncaught = "none"
  /\ stdin = P_ping


\* the action of a request; '' when the request names none
action_of(m) == IF is_dict(m) THEN dict_get(m.v, S_action, PyStr(<<>>)) ELSE PyNone

\* an item of a response; None when the response does not carry it
item(r, key) == IF is_dict(r) THEN dict_get(r.v, key, PyNone) ELSE PyNone

(***************************************************************************)
(* C12: outcome mapping of update-whitelist.  The step that handles an     *)
(* update-whitelist request runs the update script exactly when the script *)
(* exists, and runs nothing else; the response has success true exactly    *)
(* when the script existed, finished in time and exited with code 0, with  *)
(* error null; a nonzero exit gives success false and the script's stderr  *)
(* as error, a timeout gives "Update timed out", a missing script gives    *)
(* "Update script not found" with nothing run; and the response is sent    *)
(* and the loop reads on.                                                  *)
(***************************************************************************)
C12_UpdateOutcomeMapping ==
  [][ /\ (pc = "handle" /\ pc' # "handle" /\ str_eq(action_of(message), S_update_whitelist)) =>
           LET success == item(response', S_success)
               error == item(response', S_error)
               finished == env'.script_exists /\ env'.update.kind = "exit" IN
             /\ pc' = "send" /\ uncaught' = "none"
             /\ ran' = IF env'.script_exists THEN <<"update">> ELSE <<>>
             /\ calls' = <<>>
             /\ is_bool(success, finished /\ env'.update.returncode = 0)
             /\ success.v => error.t = "none"
             /\ (finished /\ env'.update.returncode # 0) => str_eq(error, env'.update.stderr)
             /\ (env'.script_exists /\ env'.update.kind = "timeout") =>
                   str_eq(error, S_UpdateTimedOut)
             /\ ~env'.script_exists => str_eq(error, S_UpdateScriptNotFound)
      /\ (pc = "send" /\ pc' # "send" /\ str_eq(action_of(message), S_update_whitelist)) =>
             (pc' = "read" /\ nsent' = nsent + 1 /\ uncaught' = "none") ]_vars

\* the response to an update whose script exited with a nonzero code has
\* been sent
C12_Witness ==
  /\ pc = "read" /\ nsent >= 1 /\ uncaught = "none"
  /\ \E o \in UpdateOutcomes :
       /\ o.kind = "exit" /\ o.returncode # 0
       /\ stdout = send_message(update_whitelist([QuietEnv EXCEPT !.script_exists = TRUE,
                                                                 !.update = o]))

(***************************************************************************)
(* C13: response envelope.  Every response handle_message returns has a    *)
(* boolean success item; when success is true it has an action item equal  *)
(* to the action of the request; when success is false it has an error     *)
(* item that is a string.                                                  *)
(***************************************************************************)
C13_ResponseEnvelope ==
  pc = "send" =>
    /\ is_dict(response)
    /\ item(response, S_success).t = "bool"
    /\ item(response, S_success).v =>
         /\ is_str(action_of(message))
         /\ str_eq(item(response, S_action), action_of(message).v)
    /\ ~item(response, S_success).v => is_str(item(response, S_error))

\* handle_message has returned the response to an update whose script exited
\* with a nonzero code: success false, the script's stderr as error
C13_Witness ==
  /\ pc = "send" /\ ran = <<"update">>
  /\ env.update.kind = "exit" /\ env.update.returncode # 0
  /\ is_bool(item(response, S_success), FALSE)
  /\ str_eq(item(response, S_error), env.update.stderr)

\* key in m, for a dict m
has_key(m, key) == \E i \in 1..Len(m.v) : m.v[i].k = key

\* message is a check request without a domains item or with an empty list
\* as domains
CheckWithoutDomains ==
  /\ str_eq(action_of(message), S_check)
  /\ \/ ~has_key(message, S_domains)
     \/ /\ dict_get(message.v, S_domains, PyNone).t = "list"
        /\ dict_get(message.v, S_domains, PyNone).v = <<>>

\* r is {"success": False, "error": "No domains provided"}
IsNoDomainsProvided(r) ==
  /\ is_dict(r) /\ Len(r.v) = 2
  /\ is_bool(item(r, S_success), FALSE)
  /\ str_eq(item(r, S_error), S_NoDomainsProvided)

(***************************************************************************)
(* C14: a check request whose domains item is missing or is an empty list  *)
(* is answered {success: false, error: "No domains provided"}; no          *)
(* subprocess is run for it; the response is sent and the loop reads on.   *)
(***************************************************************************)
C14_NoDomainsProvided ==
  [][ /\ (pc = "handle" /\ pc' # "handle" /\ CheckWithoutDomains) =>
           /\ pc' = "send" /\ uncaught' = "none"
           /\ IsNoDomainsProvided(response')
           /\ calls' = <<>> /\ ran' = <<>>
      /\ (pc = "send" /\ pc' # "send" /\ CheckWithoutDomains) =>
           /\ pc' = "read" /\ uncaught' = "none" /\ nsent' = nsent + 1
           /\ stdout' = stdout \o send_message(Failure(S_NoDomainsProvided))
           /\ calls = <<>> /\ ran = <<>> ]_vars

\* handle_message has returned the response to a check request with an
\* empty list as domains
C14_Witness ==
  /\ pc = "send" /\ CheckWithoutDomains /\ has_key(message, S_domains)
  /\ IsNoDomainsProvided(response) /\ calls = <<>> /\ ran = <<>>

(***************************************************************************)
(* C15: failure absorption in list and status.  When the run of the        *)
(* whitelist tool times out or cannot be launched, a list request is still *)
(* answered success true with an empty domains list and a status request   *)
(* success true with status {output: "", active: false}; the response is   *)
(* sent and the loop reads on.                                             *)
(***************************************************************************)
C15_ToolFailureAbsorbed ==
  [][ /\ (pc = "handle" /\ pc' # "handle" /\ str_eq(action_of(message), S_list)
          /\ env'.tool.kind # "exit") =>
           /\ pc' = "send" /\ uncaught' = "none" /\ ran' = <<"domains">>
           /\ is_bool(item(response', S_success), TRUE)
           /\ item(response', S_domains).t = "list"
           /\ item(response', S_domains).v = <<>>
      /\ (pc = "handle" /\ pc' # "handle" /\ str_eq(action_of(message), S_status)
          /\ env'.tool.kind # "exit") =>
           /\ pc' = "send" /\ uncaught' = "none" /\ ran' = <<"status">>
           /\ is_bool(item(response', S_success), TRUE)
           /\ is_dict(item(response', S_status))
           /\ Len(item(response', S_status).v) = 2
           /\ str_eq(item(item(response', S_status), S_output), <<>>)
           /\ is_bool(item(item(response', S_status), S_active), FALSE)
      /\ (pc = "send" /\ pc' # "send" /\ ran \in {<<"domains">>, <<"status">>}) =>
           /\ pc' = "read" /\ uncaught' = "none" /\ nsent' = nsent + 1
           /\ stdout' = stdout \o send_message(response) ]_vars

\* handle_message has returned the response to a list request whose run of
\* the tool timed out
C15_Witness ==
  /\ pc = "send" /\ str_eq(action_of(message), S_list)
  /\ env.tool.kind = "timeout" /\ ran = <<"domains">>
  /\ is_bool(item(response, S_success), TRUE)

\* a step of the peer, or a step of main with the logging left out
NextWithoutLogging ==
  \/ PeerWrites(Chunks) \/ PeerClose
  \/ StartProto \/ ReadProto
  \/ \E e \in Envs(message) : HandleProto(e)
  \/ \E outcome \in NextCheckOutcomes : CheckProto(outcome)
  \/ CheckReturnProto \/ SendProto

(***************************************************************************)
(* C16: logging never interrupts protocol service.  Whatever each append   *)
(* to the log and the rotation at startup do -- succeed, fail to open,     *)
(* fail to write, fail to stat, unlink or rename -- every step of the host *)
(* is, on the process and its streams, the step of main with the logging   *)
(* left out: the frames read, the responses written and the way the loop   *)
(* ends do not depend on the files, and no exception of the logging ends   *)
(* the process.                                                            *)
(***************************************************************************)
C16_LoggingNeverInterrupts ==
  [][NextWithoutLogging /\ uncaught' # "OSError"]_proto_vars

\* a response has been sent while no append to the log has gone through: the
\* log file still does not exist
C16_Witness ==
  /\ nsent >= 1 /\ pc = "read" /\ uncaught = "none"
  /\ ~log.exists

\* the file is larger than 5 MiB
oversize(file) == file.exists /\ file.size > 5 * 1024 * 1024

(***************************************************************************)
(* C17 as stated: the rotation check runs at startup only; if the active   *)
(* log then exceeds 5 MiB, after the check the backup exists and holds the *)
(* whole pre-rotation content of the active log, and the active log starts *)
(* fresh; a log of 5 MiB or less is not rotated.                           *)
(***************************************************************************)
C17_RotationAlwaysCompletes ==
  [][ /\ (pc = "start" /\ pc' # "start" /\ oversize(log)) =>
           /\ backup' = log
           /\ log' \in {NoFile, FreshFile}
      /\ (pc = "start" /\ pc' # "start" /\ ~oversize(log)) =>
           /\ backup' = backup
           /\ log.exists => log' = log
      /\ pc # "start" =>
           /\ backup' = backup
           /\ log.exists => log' = log ]_vars

(***************************************************************************)
(* C17, amended: the rotation check runs at startup only.  If the active   *)
(* log then exceeds 5 MiB and every file operation of the check succeeds,  *)
(* the backup holds the whole pre-rotation content of the active log (an   *)
(* earlier backup is gone) and the active log starts fresh.  If an         *)
(* operation fails, the check is abandoned without a sign: the active log  *)
(* is left as it was, and the earlier backup is either still there or      *)
(* already deleted.  A log of 5 MiB or less is not rotated, and no step    *)
(* after startup touches the backup or replaces the active log.            *)
(***************************************************************************)
C17_RotationCompletesOrIsAbandoned ==
  [][ /\ (pc = "start" /\ oversize(log)) =>
           LET r == rotate_log_if_needed(log, backup, "ok") IN
             r.backup = log /\ r.log = NoFile
      /\ (pc = "start" /\ pc' # "start" /\ oversize(log)) =>
           \/ /\ backup' = log
              /\ log' \in {NoFile, FreshFile}
           \/ /\ log' = log
              /\ backup' \in {backup, NoFile}
      /\ (pc = "start" /\ pc' # "start" /\ ~oversize(log)) =>
           /\ backup' = backup
           /\ log.exists => log' = log
      /\ pc # "start" =>
           /\ backup' = backup
           /\ log.exists => log' = log ]_vars

\* the rotation has replaced an earlier backup by the log of before, and
\* the host has started a fresh log
C17_Witness ==
  /\ pc = "read"
  /\ backup.exists /\ backup.content = "prior" /\ backup.size > 5 * 1024 * 1024
  /\ log = FreshFile

\* a == b for two values of the types JSON has, items of dicts in order
RECURSIVE py_eq(_, _)
py_eq(a, b) ==
  /\ a.t = b.t
  /\ CASE a.t \in {"list", "dict"} ->
            /\ Len(a.v) = Len(b.v)
            /\ \A i \in 1..Len(a.v) :
                 IF a.t = "list" THEN py_eq(a.v[i], b.v[i])
                 ELSE a.v[i].k = b.v[i].k /\ py_eq(a.v[i].v, b.v[i].v)
       [] a.t = "none" -> TRUE
       [] OTHER -> a.v = b.v

\* the frames of the values sent from the i-th on, back to back
RECURSIVE frames_from(_)
frames_from(i) ==
  IF i > Len(loop_sent) THEN <<>>
  ELSE LET payload == json_dumps(loop_sent[i]) IN
    struct_pack_I(Len(payload)) \o payload \o frames_from(i + 1)

(***************************************************************************)
(* C18: frame codec round trip.  The frame send_message writes for a value *)
(* is a 4-byte length prefix equal to the byte length of the payload, then *)
(* the payload; read_message decodes each frame to a value equal to the    *)
(* one written, in the order written; it takes the bytes of that frame and *)
(* no others, so that after the last frame no byte is left over.           *)
(***************************************************************************)
C18_CodecRoundTrip ==
  /\ Len(loop_read) <= Len(loop_sent)
  /\ \A i \in 1..Len(loop_read) :
       /\ loop_read[i].kind = "return" /\ loop_read[i].why = "decoded"
       /\ py_eq(loop_read[i].value, loop_sent[i])
  /\ \A i \in 1..Len(loop_sent) :
       LET frame == send_message(loop_sent[i]) IN
         /\ Len(frame) >= 4
         /\ struct_unpack_I(SubSeq(frame, 1, 4)) = Len(frame) - 4
         /\ SubSeq(frame, 5, Len(frame)) = json_dumps(loop_sent[i])
  /\ loop_buf = frames_from(Len(loop_read) + 1)
  /\ Len(loop_read) = Len(loop_sent) => loop_buf = <<>>

\* two frames were written back to back, then both were read
C18_Witness ==
  /\ Len(loop_sent) = 2 /\ Len(loop_read) = 2 /\ loop_buf = <<>>
  /\ loop_sent[1].t = "dict" /\ loop_sent[2].t = "str" /\ Len(loop_sent[2].v) = 4
  /\ loop_read[2].value.t = "str"

(***************************************************************************)
(* C19: bounded response and termination.  Every subprocess exits or is    *)
(* ended at its timeout; then every frame that is decoded is eventually    *)
(* followed by its response frame, and once the peer has closed the stream *)
(* the loop eventually terminates.                                         *)
(***************************************************************************)
C19_BoundedResponseAndTermination ==
  /\ \A n \in 1..MaxFrames : (nread = n) ~> (nsent = n)
  /\ stdin_closed ~> (pc = "exit")

\* the domains item of the request; None when the request has none
raw_domains == dict_get(message.v, S_domains, PyNone)

\* message is a check request with a non-empty list as domains, all of whose
\* first 50 entries the tests of check_domains reject
CheckAllRejected ==
  /\ str_eq(action_of(message), S_check)
  /\ raw_domains.t = "list" /\ Len(raw_domains.v) > 0
  /\ survivors(first_n(raw_domains.v, 50)) = <<>>

\* the domains item is missing, or is an empty list, string or object
DomainsMissingOrEmpty ==
  \/ ~has_key(message, S_domains)
  \/ raw_domains.t \in {"list", "str", "dict"} /\ Len(raw_domains.v) = 0

\* the domains item is missing or is a value Python takes for false
DomainsMissingOrFalsy ==
  \/ DomainsMissingOrEmpty
  \/ raw_domains.t = "none"
  \/ raw_domains.t = "bool" /\ ~raw_domains.v
  \/ raw_domains.t = "int" /\ raw_domains.v = 0

\* the response to a check whose entries were all rejected: success true, no
\* result, and no subprocess was run
AllRejectedAnswer ==
  CheckAllRejected =>
    /\ is_bool(item(response, S_success), TRUE)
    /\ item(response, S_results).t = "list" /\ item(response, S_results).v = <<>>
    /\ calls = <<>> /\ ran = <<>>

(***************************************************************************)
(* C20 as stated: a check whose domains list is non-empty but whose        *)
(* entries among the first 50 are all rejected is answered success true    *)
(* with an empty results list and runs no subprocess; "No domains          *)
(* provided" is returned only when the domains item is missing or empty.   *)
(***************************************************************************)
C20_NoDomainsOnlyWhenMissingOrEmpty ==
  (pc = "send" /\ str_eq(action_of(message), S_check)) =>
    /\ AllRejectedAnswer
    /\ IsNoDomainsProvided(response) => DomainsMissingOrEmpty

(***************************************************************************)
(* C20, amended: a check whose domains list is non-empty but whose entries *)
(* among the first 50 are all rejected is answered success true with an    *)
(* empty results list and runs no subprocess; "No domains provided" is     *)
(* returned exactly when the domains item is missing or is a value Python  *)
(* takes for false: an empty list, string or object, null, false or 0.     *)
(***************************************************************************)
C20_NoDomainsExactlyWhenMissingOrFalsy ==
  (pc = "send" /\ str_eq(action_of(message), S_check)) =>
    /\ AllRejectedAnswer
    /\ IsNoDomainsProvided(response) <=> DomainsMissingOrFalsy

\* handle_message has returned the response to a check of "a;b" and "a b":
\* both entries were rejected
C20_Witness ==
  /\ pc = "send" /\ CheckAllRejected /\ Len(raw_domains.v) = 2
  /\ is_bool(item(response, S_success), TRUE) /\ calls = <<>>

=========================================================================
